---- MODULE Spec2Model ----
(***************************************************************************)
(* A model of the WAF rule stresser backend: the request executor          *)
(* (sendRequest, BuildAttackRequest, SelectUserAgent), the statistics      *)
(* aggregator, the streaming session coordinator (RunTestStreaming,        *)
(* sendRequestsConcurrently) and the session registry with its HTTP        *)
(* handlers (handleStartTestStream, handleStopTest).                       *)
(***************************************************************************)
EXTENDS Integers, Sequences, FiniteSets, TLC

VARIABLES
    now,            \* the wall clock, in ticks of TickMs milliseconds
    AttackPayloads, \* the process-wide payload pools (attacks.go)
    activeSessions, \* the session registry: test id -> session
    hpc,            \* handleStartTestStream: position of each handler
    sessConfig,     \* the configuration each handler runs with
    testID,         \* the identifier RunTestStreaming generated
    startTime,      \* startTime of RunTestStreaming, in ticks
    ctxDone,        \* whether the session's context is cancelled
    events,         \* every update sent on progressChan, in order
    consumed,       \* how many of them the handler has streamed out
    progressClosed, \* whether progressChan is closed
    bpc,            \* the batching goroutine's position
    allRequests,    \* its allRequests
    batchRequests,  \* its batchRequests
    completedCount, \* its completedCount
    lastSendTime,   \* its lastSendTime, in ticks
    resultsChan,    \* the buffered outcome channel's content
    resultsClosed,  \* whether resultsChan is closed
    dpc,            \* sendRequestsConcurrently: position
    di,             \* its loop variable i
    dstart,         \* tick at which its current request or wait began
    dresult,        \* the outcome it is about to enqueue
    stopResponse,   \* the latest response of handleStopTest
    xconfig,        \* executor run: the configuration given to sendRequest
    xresult,        \* executor run: the outcome sendRequest returned
    calcIn,         \* calculator run: the function called and its arguments
    calcOut,        \* calculator run: what the function returned
    rpc,            \* handleStartTest / RunTest: position
    rconfig,        \* the configuration handleStartTest decoded
    rresult,        \* RunTest's result
    ri,             \* RunTest's loop variable i
    rsince,         \* tick at which its current request or sleep began
    testStartTime   \* RunTest's testStartTime, in ticks

streamVars == <<activeSessions, hpc, sessConfig, testID, startTime, ctxDone,
                events, consumed, progressClosed, bpc, allRequests,
                batchRequests, completedCount, lastSendTime,
                resultsChan, resultsClosed, dpc, di, dstart, dresult, stopResponse>>
execVars == <<xconfig, xresult>>
calcVars == <<calcIn, calcOut>>
runVars == <<rpc, rconfig, rresult, ri, rsince, testStartTime>>
vars == <<now, AttackPayloads, streamVars, execVars, calcVars, runVars>>

-----------------------------------------------------------------------------
(* Bounds of the model *)

MaxSessions == 2
MaxRequests == 2
MaxTime == 2
TickMs == 1000
MaxTimeRegistry == 1

(* Program constants *)

ResultsChanCap == 100
ProgressChanCap == 10
BatchWindowMs == 1000
MaxTotalRequests == 10000
MaxDurationSeconds == 3600
BodyLimit == 500

Sessions == 1..MaxSessions
None == "none"

-----------------------------------------------------------------------------
(* Strings *)

HasSuffix(s, suf) ==
    /\ Len(s) >= Len(suf)
    /\ SubSeq(s, Len(s) - Len(suf) + 1, Len(s)) = suf

TrimSuffix(s, suf) ==
    IF HasSuffix(s, suf) THEN SubSeq(s, 1, Len(s) - Len(suf)) ELSE s

Contains(s, sub) ==
    \E i \in 1..(Len(s) - Len(sub) + 1) : SubSeq(s, i, i + Len(sub) - 1) = sub

(* Maps with string keys (map[string]string) *)

EmptyMap == [k \in {} |-> ""]

MapSet(m, key, value) ==
    [k \in (DOMAIN m) \cup {key} |-> IF k = key THEN value ELSE m[k]]

MapCopy(m) == [k \in DOMAIN m |-> m[k]]

-----------------------------------------------------------------------------
(* Payload pools (attacks.go) *)

FallbackScannerAgents == <<"sqlmap/1.0", "Nikto/2.1.6", "nmap-scripting-engine">>

FallbackLegitimateAgent ==
    "Mozilla/5.0 (Windows NT 10.0; Win64; x64) AppleWebKit/537.36 (KHTML, like Gecko) Chrome/131.0.0.0 Safari/537.36"

EmptyPools ==
    [SQLInjection |-> <<>>, XSS |-> <<>>, PathTraversal |-> <<>>,
     CommandInjection |-> <<>>, ScannerUserAgents |-> <<>>,
     LegitimateUserAgents |-> <<>>]

LoadedPools ==
    [SQLInjection |-> <<"1' OR '1'='1">>, XSS |-> <<"<script>alert(1)</script>">>,
     PathTraversal |-> <<"../../etc/passwd">>, CommandInjection |-> <<"; cat /etc/passwd">>,
     ScannerUserAgents |-> <<"sqlmap/1.7.2", "masscan/1.3">>,
     LegitimateUserAgents |-> <<"Mozilla/5.0 (X11; Linux x86_64) Firefox/120.0">>]

(* Only the payload files that exist are loaded; the others stay empty. *)
PartialPools ==
    [EmptyPools EXCEPT !.SQLInjection = <<"1' OR '1'='1">>,
                       !.LegitimateUserAgents = <<"Mozilla/5.0 (X11; Linux x86_64) Firefox/120.0">>]

PoolStates == {EmptyPools, LoadedPools, PartialPools}

AttackTypes == {"sql", "xss", "traversal", "command"}

PayloadPool(pools, attackType) ==
    CASE attackType = "sql" -> pools.SQLInjection
      [] attackType = "xss" -> pools.XSS
      [] attackType = "traversal" -> pools.PathTraversal
      [] attackType = "command" -> pools.CommandInjection
      [] OTHER -> <<>>

(* GetRandomPayload: every value rand.Intn can select, "" for an empty pool *)
GetRandomPayload(pools, attackType) ==
    LET payloads == PayloadPool(pools, attackType)
    IN  IF Len(payloads) = 0 THEN {""} ELSE {payloads[i] : i \in 1..Len(payloads)}

(* GetRandomUserAgent: every value it can return *)
GetRandomUserAgent(pools) ==
    IF Len(pools.ScannerUserAgents) = 0
    THEN {FallbackScannerAgents[i] : i \in 1..Len(FallbackScannerAgents)}
    ELSE {pools.ScannerUserAgents[i] : i \in 1..Len(pools.ScannerUserAgents)}

(* GetLegitimateUserAgent: every value it can return *)
GetLegitimateUserAgent(pools) ==
    IF Len(pools.LegitimateUserAgents) = 0
    THEN {FallbackLegitimateAgent}
    ELSE {pools.LegitimateUserAgents[i] : i \in 1..Len(pools.LegitimateUserAgents)}

(* SelectUserAgent with the user-agent type tested before the custom agent *)
SelectUserAgentTypeFirst(pools, config) ==
    IF config.UserAgentType = "scanner" THEN GetRandomUserAgent(pools)
    ELSE IF config.UserAgentType = "legitimate" THEN GetLegitimateUserAgent(pools)
    ELSE IF config.CustomUserAgent # "" THEN {config.CustomUserAgent}
    ELSE IF config.TrafficType = "attack" THEN GetRandomUserAgent(pools)
    ELSE GetLegitimateUserAgent(pools)

(* SelectUserAgent: every value it can return for the configuration *)
SelectUserAgent(pools, config) ==
    IF config.CustomUserAgent # "" THEN {config.CustomUserAgent}
    ELSE IF config.UserAgentType = "scanner" THEN GetRandomUserAgent(pools)
    ELSE IF config.UserAgentType = "legitimate" THEN GetLegitimateUserAgent(pools)
    ELSE IF config.TrafficType = "attack" THEN GetRandomUserAgent(pools)
    ELSE GetLegitimateUserAgent(pools)

(* The random draws and the transport's answer for one sendRequest: the     *)
(* attack type and payload, the scanner agent BuildAttackRequest picks, the *)
(* agent SelectUserAgent picks, the random suffix of the 404 path, how the  *)
(* request fails if it does ("create": http.NewRequest, "transport":        *)
(* client.Do, "read": io.ReadAll), and the response status and body.        *)
Draws(pools, config, statuses, bodies, failures) ==
    UNION { { [attackType |-> t, payload |-> p, attackAgent |-> a, agent |-> u,
               rand |-> r, failure |-> f, status |-> st, body |-> b] :
                p \in GetRandomPayload(pools, t),
                a \in GetRandomUserAgent(pools), u \in SelectUserAgent(pools, config),
                r \in {7}, f \in failures, st \in statuses, b \in bodies }
            : t \in AttackTypes }

(* BuildAttackRequest joining the query with "?" whatever the URL holds *)
BuildAttackRequestAlwaysQuestionMark(config, d) ==
    LET url == config.TargetURL
        body == config.RequestBody
        headers == MapCopy(config.CustomHeaders)
        payload == d.payload
    IN  IF payload = ""
        THEN [url |-> url, body |-> body, headers |-> headers,
              attackInfo |-> "No payloads available"]
        ELSE IF config.HTTPMethod = "GET" \/ config.HTTPMethod = ""
        THEN [url |-> url \o "?id=" \o payload \o "&search=" \o payload,
              body |-> body,
              headers |-> MapSet(headers, "User-Agent", d.attackAgent),
              attackInfo |-> d.attackType \o " (query parameter)"]
        ELSE [url |-> url,
              body |-> IF body = ""
                       THEN "{\"id\": \"" \o payload \o "\", \"search\": \"" \o payload \o "\"}"
                       ELSE TrimSuffix(body, "}") \o ", \"attack\": \"" \o payload \o "\"}",
              headers |-> MapSet(headers, "User-Agent", d.attackAgent),
              attackInfo |-> d.attackType \o " (request body)"]

(* BuildAttackRequest splicing into the body without strings.TrimSuffix *)
BuildAttackRequestNoTrim(config, d) ==
    LET url == config.TargetURL
        body == config.RequestBody
        headers == MapCopy(config.CustomHeaders)
        payload == d.payload
    IN  IF payload = ""
        THEN [url |-> url, body |-> body, headers |-> headers,
              attackInfo |-> "No payloads available"]
        ELSE IF config.HTTPMethod = "GET" \/ config.HTTPMethod = ""
        THEN [url |-> url \o (IF Contains(url, "?") THEN "&" ELSE "?")
                          \o "id=" \o payload \o "&search=" \o payload,
              body |-> body,
              headers |-> MapSet(headers, "User-Agent", d.attackAgent),
              attackInfo |-> d.attackType \o " (query parameter)"]
        ELSE [url |-> url,
              body |-> IF body = ""
                       THEN "{\"id\": \"" \o payload \o "\", \"search\": \"" \o payload \o "\"}"
                       ELSE body \o ", \"attack\": \"" \o payload \o "\"}",
              headers |-> MapSet(headers, "User-Agent", d.attackAgent),
              attackInfo |-> d.attackType \o " (request body)"]

(* BuildAttackRequest *)
BuildAttackRequest(config, d) ==
    LET url == config.TargetURL
        body == config.RequestBody
        headers == MapCopy(config.CustomHeaders)
        payload == d.payload
    IN  IF payload = ""
        THEN [url |-> url, body |-> body, headers |-> headers,
              attackInfo |-> "No payloads available"]
        ELSE IF config.HTTPMethod = "GET" \/ config.HTTPMethod = ""
        THEN [url |-> url \o (IF Contains(url, "?") THEN "&" ELSE "?")
                          \o "id=" \o payload \o "&search=" \o payload,
              body |-> body,
              headers |-> MapSet(headers, "User-Agent", d.attackAgent),
              attackInfo |-> d.attackType \o " (query parameter)"]
        ELSE [url |-> url,
              body |-> IF body = ""
                       THEN "{\"id\": \"" \o payload \o "\", \"search\": \"" \o payload \o "\"}"
                       ELSE TrimSuffix(body, "}") \o ", \"attack\": \"" \o payload \o "\"}",
              headers |-> MapSet(headers, "User-Agent", d.attackAgent),
              attackInfo |-> d.attackType \o " (request body)"]

(* Generate404URL, at Unix time unix with random integer r *)
Generate404URL(baseURL, unix, r) ==
    TrimSuffix(baseURL, "/") \o "/nonexistent-path-" \o ToString(unix) \o "-" \o ToString(r)

UnixSeconds(t) == (t * TickMs) \div 1000

(* http.StatusText *)
StatusText(code) ==
    CASE code = 200 -> "OK"
      [] code = 403 -> "Forbidden"
      [] code = 404 -> "Not Found"
      [] code = 406 -> "Not Acceptable"
      [] code = 429 -> "Too Many Requests"
      [] code = 500 -> "Internal Server Error"
      [] OTHER -> ""

(* The response headers of the transport, each with its list of values *)
TransportHeaders == [k \in {"Via"} |-> <<"1.1 varnish", "1.1 varnish">>]

RECURSIVE Join(_, _)
Join(values, sep) ==
    IF Len(values) = 0 THEN ""
    ELSE IF Len(values) = 1 THEN values[1]
    ELSE values[1] \o sep \o Join(Tail(values), sep)

Truncate(bodyString) ==
    IF Len(bodyString) > BodyLimit
    THEN SubSeq(bodyString, 1, BodyLimit) \o "... (truncated)"
    ELSE bodyString

(* the blocked test with 429 alone *)
IsBlockedStatusRateLimitOnly(code) == code = 429

IsBlockedStatus(code) == code = 429 \/ code = 406 \/ code = 403

(* the caller's CustomHeaders map after a sendRequest in which              *)
(* BuildAttackRequest wrote its User-Agent into config.CustomHeaders itself *)
CustomHeadersShared(config, d) ==
    IF config.TrafficType = "attack" /\ d.payload # ""
    THEN MapSet(config.CustomHeaders, "User-Agent", d.attackAgent)
    ELSE config.CustomHeaders

(* the caller's CustomHeaders map after sendRequest(id, config) returned:   *)
(* the configuration is passed by value but its map is shared with the      *)
(* caller; sendRequest and BuildAttackRequest write only to maps they made  *)
(* and filled from it                                                       *)
CustomHeadersAfter(config, d) == config.CustomHeaders

(* sendRequest forcing the 404 whenever ErrorMode is set, attack or not *)
sendRequestErrorModeFirst(id, config, d, start, elapsedMs) ==
    LET method == IF config.HTTPMethod = "" THEN "GET" ELSE config.HTTPMethod
        forced == config.ErrorMode
        attack == config.TrafficType = "attack" /\ ~config.ErrorMode
        built == BuildAttackRequest(config, d)
        url == IF attack THEN built.url
               ELSE IF forced THEN Generate404URL(config.TargetURL, UnixSeconds(start), d.rand)
               ELSE config.TargetURL
        body == IF attack THEN built.body ELSE config.RequestBody
        headers == IF attack THEN built.headers ELSE MapCopy(config.CustomHeaders)
        result0 == [ID |-> id, Timestamp |-> start, URL |-> url, Method |-> method,
                    Status |-> 0, StatusText |-> "", RequestHeaders |-> EmptyMap,
                    ResponseHeaders |-> EmptyMap, RequestBody |-> body,
                    ResponseBody |-> "", ResponseTime |-> 0, Error |-> "",
                    WasBlocked |-> FALSE,
                    AttackInfo |-> IF attack THEN built.attackInfo ELSE ""]
        withType == IF body # "" THEN MapSet(headers, "Content-Type", "application/json")
                    ELSE headers
        sent == [result0 EXCEPT !.RequestHeaders = MapSet(withType, "User-Agent", d.agent),
                                !.ResponseTime = elapsedMs]
        answered == [sent EXCEPT !.Status = d.status,
                                 !.StatusText = StatusText(d.status),
                                 !.WasBlocked = IsBlockedStatus(d.status),
                                 !.ResponseHeaders =
                                     [k \in DOMAIN TransportHeaders |-> Join(TransportHeaders[k], ", ")]]
    IN  CASE d.failure = "create" ->
                [result0 EXCEPT !.Error = "Failed to create request: invalid request"]
          [] d.failure = "transport" ->
                [sent EXCEPT !.Error = "Request failed: connection refused"]
          [] d.failure = "read" ->
                [answered EXCEPT !.Error = "Failed to read response body: unexpected EOF"]
          [] OTHER ->
                [answered EXCEPT !.ResponseBody = Truncate(d.body)]

(* sendRequest(id, config), started at tick start with Unix time unix, the  *)
(* transport taking elapsedMs milliseconds, under the draws d               *)
sendRequest(id, config, d, start, elapsedMs) ==
    LET method == IF config.HTTPMethod = "" THEN "GET" ELSE config.HTTPMethod
        forced == config.TrafficType = "normal" /\ config.ErrorMode
        attack == config.TrafficType = "attack"
        built == BuildAttackRequest(config, d)
        url == IF attack THEN built.url
               ELSE IF forced THEN Generate404URL(config.TargetURL, UnixSeconds(start), d.rand)
               ELSE config.TargetURL
        body == IF attack THEN built.body ELSE config.RequestBody
        headers == IF attack THEN built.headers ELSE MapCopy(config.CustomHeaders)
        result0 == [ID |-> id, Timestamp |-> start, URL |-> url, Method |-> method,
                    Status |-> 0, StatusText |-> "", RequestHeaders |-> EmptyMap,
                    ResponseHeaders |-> EmptyMap, RequestBody |-> body,
                    ResponseBody |-> "", ResponseTime |-> 0, Error |-> "",
                    WasBlocked |-> FALSE,
                    AttackInfo |-> IF attack THEN built.attackInfo ELSE ""]
        withType == IF body # "" THEN MapSet(headers, "Content-Type", "application/json")
                    ELSE headers
        sent == [result0 EXCEPT !.RequestHeaders = MapSet(withType, "User-Agent", d.agent),
                                !.ResponseTime = elapsedMs]
        answered == [sent EXCEPT !.Status = d.status,
                                 !.StatusText = StatusText(d.status),
                                 !.WasBlocked = IsBlockedStatus(d.status),
                                 !.ResponseHeaders =
                                     [k \in DOMAIN TransportHeaders |-> Join(TransportHeaders[k], ", ")]]
    IN  CASE d.failure = "create" ->
                [result0 EXCEPT !.Error = "Failed to create request: invalid request"]
          [] d.failure = "transport" ->
                [sent EXCEPT !.Error = "Request failed: connection refused"]
          [] d.failure = "read" ->
                [answered EXCEPT !.Error = "Failed to read response body: unexpected EOF"]
          [] OTHER ->
                [answered EXCEPT !.ResponseBody = Truncate(d.body)]

-----------------------------------------------------------------------------
(* Statistics aggregator (percentiles, calculateStatistics) *)

(* float64 arithmetic, as calculatePercentile uses it. A natural number is  *)
(* a sequence of limbs in base LimbBase, least significant first, without   *)
(* high zero limbs; a non-negative float64 is m * 2^e with m of at most 53  *)
(* significant bits. An intermediate result is bound by x \in {e}, so that  *)
(* it is computed once.                                                     *)
LimbBits == 15
LimbBase == 2^LimbBits
MantissaBits == 53

RECURSIVE BigMulSmall(_, _, _)
BigMulSmall(a, k, carry) ==
    IF Len(a) = 0
    THEN IF carry = 0 THEN <<>>
         ELSE <<carry % LimbBase>> \o BigMulSmall(<<>>, k, carry \div LimbBase)
    ELSE CHOOSE r \in { <<t % LimbBase>> \o BigMulSmall(Tail(a), k, t \div LimbBase) :
                          t \in {a[1] * k + carry} } : TRUE

RECURSIVE BigAdd(_, _, _)
BigAdd(a, b, carry) ==
    IF Len(a) = 0 /\ Len(b) = 0
    THEN IF carry = 0 THEN <<>> ELSE <<carry>>
    ELSE CHOOSE r \in { <<t % LimbBase>>
                           \o BigAdd(IF Len(a) = 0 THEN a ELSE Tail(a),
                                     IF Len(b) = 0 THEN b ELSE Tail(b), t \div LimbBase) :
                          t \in {(IF Len(a) = 0 THEN 0 ELSE a[1])
                                   + (IF Len(b) = 0 THEN 0 ELSE b[1]) + carry} } : TRUE

RECURSIVE BigNorm(_)
BigNorm(a) ==
    IF Len(a) = 0 THEN a
    ELSE IF a[Len(a)] = 0 THEN BigNorm(SubSeq(a, 1, Len(a) - 1))
    ELSE a

(* quotient and remainder of a by the small divisor d *)
RECURSIVE BigDivSmall(_, _)
BigDivSmall(a, d) ==
    IF Len(a) = 0 THEN [q |-> <<>>, r |-> 0]
    ELSE CHOOSE r \in { [q |-> BigNorm(<<(hi.r * LimbBase + a[1]) \div d>> \o hi.q),
                         r |-> (hi.r * LimbBase + a[1]) % d] :
                          hi \in {BigDivSmall(Tail(a), d)} } : TRUE

RECURSIVE BitLen(_)
BitLen(x) == IF x = 0 THEN 0 ELSE 1 + BitLen(x \div 2)

BigBitLen(a) ==
    IF Len(a) = 0 THEN 0 ELSE LimbBits * (Len(a) - 1) + BitLen(a[Len(a)])

(* bit i of a, bit 0 the least significant *)
BigBit(a, i) ==
    IF i \div LimbBits + 1 > Len(a) THEN 0
    ELSE (a[i \div LimbBits + 1] \div 2^(i % LimbBits)) % 2

BigShiftLeft(a, k) ==
    IF Len(a) = 0 THEN a
    ELSE BigMulSmall([i \in 1..(k \div LimbBits) |-> 0] \o a, 2^(k % LimbBits), 0)

BigShiftRight(a, k) ==
    IF k \div LimbBits >= Len(a) THEN <<>>
    ELSE BigDivSmall(SubSeq(a, k \div LimbBits + 1, Len(a)), 2^(k % LimbBits)).q

RECURSIVE BigToInt(_)
BigToInt(a) == IF Len(a) = 0 THEN 0 ELSE a[1] + LimbBase * BigToInt(Tail(a))

(* m * 2^e rounded to the nearest float64, ties to even *)
Round64(m, e) ==
    IF BigBitLen(m) <= MantissaBits THEN [m |-> m, e |-> e]
    ELSE CHOOSE r \in {
             [m |-> IF /\ BigBit(m, d - 1) = 1
                       /\ \/ \E j \in 0..(d - 2) : BigBit(m, j) = 1
                          \/ BigBit(q, 0) = 1
                    THEN BigAdd(q, <<1>>, 0) ELSE q,
              e |-> e + d] :
                 d \in {BigBitLen(m) - MantissaBits},
                 q \in {BigShiftRight(m, BigBitLen(m) - MantissaBits)} } : TRUE

(* float64(x) / float64(y) for integers 0 <= x, 0 < y below LimbBase; the   *)
(* quotient is taken to more than 53 bits, with one more bit that tells     *)
(* whether the division left a remainder                                    *)
Float64Div(x, y) ==
    IF x = 0 THEN [m |-> <<>>, e |-> 0]
    ELSE CHOOSE r \in {
             Round64(m, -(MantissaBits + BitLen(y)) - 1) :
                 m \in { BigMulSmall(qr.q, 2, IF qr.r = 0 THEN 0 ELSE 1) :
                     qr \in { BigDivSmall(n, y) :
                         n \in {BigShiftLeft(<<x>>, MantissaBits + BitLen(y))} } } } : TRUE

(* x * float64(k) for an integer 0 <= k below LimbBase *)
Float64MulInt(x, k) ==
    IF k = 0 \/ Len(x.m) = 0 THEN [m |-> <<>>, e |-> 0]
    ELSE CHOOSE r \in { Round64(m, x.e) : m \in {BigMulSmall(x.m, k, 0)} } : TRUE

Float64Add(x, y) ==
    IF Len(x.m) = 0 THEN y
    ELSE IF Len(y.m) = 0 THEN x
    ELSE CHOOSE r \in {
             Round64(m, e) :
                 e \in {IF x.e < y.e THEN x.e ELSE y.e},
                 m \in { BigAdd(a, b, 0) :
                     a \in {BigShiftLeft(x.m, x.e - (IF x.e < y.e THEN x.e ELSE y.e))},
                     b \in {BigShiftLeft(y.m, y.e - (IF x.e < y.e THEN x.e ELSE y.e))} } } : TRUE

Float64Half == [m |-> <<1>>, e |-> -1]

(* int(x): the integer part *)
Float64ToInt(x) ==
    IF x.e >= 0 THEN BigToInt(BigShiftLeft(x.m, x.e))
    ELSE BigToInt(BigShiftRight(x.m, -x.e))

(* the index calculatePercentile reads for a slice of n > 0 values:         *)
(* index := (percentile / 100.0) * float64(n-1), roundedIndex :=            *)
(* int(index + 0.5), capped at n-1                                          *)
PercentileIndex(n, percentile) ==
    CHOOSE r \in {
        IF roundedIndex >= n THEN n - 1 ELSE roundedIndex :
            roundedIndex \in { Float64ToInt(sum) :
                sum \in { Float64Add(index, Float64Half) :
                    index \in { Float64MulInt(quotient, n - 1) :
                        quotient \in {Float64Div(percentile, 100)} } } } } : TRUE

(* calculatePercentile, the index counted from 0 as in the source *)
calculatePercentile(sortedValues, percentile) ==
    IF Len(sortedValues) = 0 THEN 0
    ELSE sortedValues[PercentileIndex(Len(sortedValues), percentile) + 1]

(* sortInts without the sort: the copy as it is *)
sortIntsCopyOnly(values) == values

(* sortInts: an ascending copy of values *)
(* position k holds the value v with fewer than k elements below it and at  *)
(* least k elements not above it                                            *)
sortInts(values) ==
    LET idx == 1..Len(values)
        below(v) == Cardinality({i \in idx : values[i] < v})
        upTo(v) == Cardinality({i \in idx : values[i] <= v})
    IN  [k \in idx |->
            CHOOSE v \in {values[i] : i \in idx} : below(v) < k /\ k <= upTo(v)]

calculateResponseTimePercentiles(responseTimes) ==
    IF Len(responseTimes) = 0 THEN [p50 |-> 0, p95 |-> 0, p99 |-> 0]
    ELSE LET sorted == sortInts(responseTimes)
         IN  [p50 |-> calculatePercentile(sorted, 50),
              p95 |-> calculatePercentile(sorted, 95),
              p99 |-> calculatePercentile(sorted, 99)]

RECURSIVE SumResponseTime(_)
SumResponseTime(requests) ==
    IF Len(requests) = 0 THEN 0
    ELSE Head(requests).ResponseTime + SumResponseTime(Tail(requests))

IsSuccess(req) == req.Status >= 200 /\ req.Status < 300
(* IsError without the status test: only a failed request is an error *)
IsErrorOnlyFailures(req) == req.Error # ""

IsError(req) == req.Status >= 400 \/ req.Error # ""
IsBlocked(req) == req.WasBlocked

SuccessCount(requests) == Cardinality({i \in 1..Len(requests) : IsSuccess(requests[i])})
ErrorCount(requests) == Cardinality({i \in 1..Len(requests) : IsError(requests[i])})
BlockedCount(requests) == Cardinality({i \in 1..Len(requests) : IsBlocked(requests[i])})

MinSentinel == 999999

(* the loop over minResponse without its test for a positive time *)
MinResponseFromAny(requests, minResponse) ==
    LET seen == {requests[i].ResponseTime : i \in 1..Len(requests)} \cup {minResponse}
    IN  CHOOSE m \in seen : \A t \in seen : m <= t

(* the loop of calculateStatistics over minResponse and maxResponse: the    *)
(* value each variable holds after the last outcome                         *)
MinResponseFrom(requests, minResponse) ==
    LET seen == {t \in {requests[i].ResponseTime : i \in 1..Len(requests)} : t > 0}
                    \cup {minResponse}
    IN  CHOOSE m \in seen : \A t \in seen : m <= t

(* the loop over maxResponse without its comparison: the last response time *)
MaxResponseFromLast(requests, maxResponse) ==
    IF Len(requests) = 0 THEN maxResponse ELSE requests[Len(requests)].ResponseTime

MaxResponseFrom(requests, maxResponse) ==
    LET seen == {requests[i].ResponseTime : i \in 1..Len(requests)} \cup {maxResponse}
    IN  CHOOSE m \in seen : \A t \in seen : t <= m

(* A TestResult as Go zero-initialises it *)
ZeroResult ==
    [TestID |-> "", TotalRequests |-> 0, SuccessCount |-> 0, ErrorCount |-> 0,
     BlockedCount |-> 0, AvgResponse |-> 0, MinResponse |-> 0, MaxResponse |-> 0,
     P50Response |-> 0, P95Response |-> 0, P99Response |-> 0, Requests |-> <<>>,
     RateLimitHit |-> FALSE, RateLimitAt |-> 0, StartTime |-> 0, EndTime |-> 0,
     DurationMs |-> 0, RequestsPerKiloSec |-> 0]

(* calculateStatistics without the reset of a minimum left at its start     *)
(* value                                                                    *)
calculateStatisticsKeepSentinel(result) ==
    LET requests == result.Requests
        pct == calculateResponseTimePercentiles(
                   [i \in 1..Len(requests) |-> requests[i].ResponseTime])
        durationMs == (result.EndTime - result.StartTime) * TickMs
    IN  [result EXCEPT
            !.AvgResponse = IF result.TotalRequests > 0
                            THEN SumResponseTime(requests) \div result.TotalRequests
                            ELSE result.AvgResponse,
            !.SuccessCount = SuccessCount(requests),
            !.ErrorCount = ErrorCount(requests),
            !.BlockedCount = BlockedCount(requests),
            !.MinResponse = MinResponseFrom(requests, MinSentinel),
            !.MaxResponse = MaxResponseFrom(requests, 0),
            !.P50Response = pct.p50,
            !.P95Response = pct.p95,
            !.P99Response = pct.p99,
            !.DurationMs = durationMs,
            !.RequestsPerKiloSec = IF durationMs > 0
                                   THEN (result.TotalRequests * 1000000) \div durationMs
                                   ELSE result.RequestsPerKiloSec]

(* calculateStatistics(&result): the result with its statistics filled in *)
calculateStatistics(result) ==
    LET requests == result.Requests
        minResponse == MinResponseFrom(requests, MinSentinel)
        pct == calculateResponseTimePercentiles(
                   [i \in 1..Len(requests) |-> requests[i].ResponseTime])
        durationMs == (result.EndTime - result.StartTime) * TickMs
    IN  [result EXCEPT
            !.AvgResponse = IF result.TotalRequests > 0
                            THEN SumResponseTime(requests) \div result.TotalRequests
                            ELSE result.AvgResponse,
            !.SuccessCount = SuccessCount(requests),
            !.ErrorCount = ErrorCount(requests),
            !.BlockedCount = BlockedCount(requests),
            !.MinResponse = IF minResponse = MinSentinel THEN 0 ELSE minResponse,
            !.MaxResponse = MaxResponseFrom(requests, 0),
            !.P50Response = pct.p50,
            !.P95Response = pct.p95,
            !.P99Response = pct.p99,
            !.DurationMs = durationMs,
            !.RequestsPerKiloSec = IF durationMs > 0
                                   THEN (result.TotalRequests * 1000000) \div durationMs
                                   ELSE result.RequestsPerKiloSec]

(* calculateInterval without the halving of burst mode *)
calculateIntervalWholeDuration(config) ==
    (config.Duration * 1000) \div config.TotalRequests

(* calculateInterval *)
calculateInterval(config) ==
    IF config.TestMode = "burst"
    THEN ((config.Duration \div 2) * 1000) \div config.TotalRequests
    ELSE (config.Duration * 1000) \div config.TotalRequests

(* the interval RunTest computes inline *)
RunTestInterval(config) ==
    IF config.TestMode = "burst"
    THEN LET burstDuration == config.Duration \div 2
         IN  (burstDuration * 1000) \div config.TotalRequests
    ELSE (config.Duration * 1000) \div config.TotalRequests

(* calculateIncrementalStats *)
calculateIncrementalStats(requests) ==
    [SuccessCount |-> SuccessCount(requests),
     ErrorCount |-> ErrorCount(requests),
     BlockedCount |-> BlockedCount(requests),
     AvgResponse |-> IF Len(requests) > 0
                     THEN SumResponseTime(requests) \div Len(requests) ELSE 0]

(* buildFinalResult, called at tick endTime *)
buildFinalResult(id, requests, start, endTime) ==
    calculateStatistics(
        [ZeroResult EXCEPT !.TestID = id, !.StartTime = start, !.EndTime = endTime,
                           !.Requests = requests, !.TotalRequests = Len(requests)])

-----------------------------------------------------------------------------
(* Configurations *)

(* the validation without the upper limit on total_requests *)
ValidateConfigNoRequestLimit(config) ==
    IF config.TargetURL = "" THEN "target_url is required"
    ELSE IF config.TotalRequests <= 0 THEN "total_requests must be greater than 0"
    ELSE IF config.Duration <= 0 THEN "duration must be greater than 0"
    ELSE IF config.Duration > MaxDurationSeconds
        THEN "duration cannot exceed 3600 seconds (1 hour)"
    ELSE IF config.TrafficType \notin {"", "normal", "attack"}
        THEN "traffic_type must be 'normal' or 'attack'"
    ELSE IF config.TestMode \notin {"", "baseline", "burst"}
        THEN "test_mode must be 'baseline' or 'burst'"
    ELSE IF config.UserAgentType \notin {"", "legitimate", "scanner"}
        THEN "user_agent_type must be 'legitimate' or 'scanner'"
    ELSE ""

(* The validation of handleStartTest and handleStartTestStream: the error   *)
(* the handler answers with, "" when the configuration is accepted          *)
ValidateConfig(config) ==
    IF config.TargetURL = "" THEN "target_url is required"
    ELSE IF config.TotalRequests <= 0 THEN "total_requests must be greater than 0"
    ELSE IF config.TotalRequests > MaxTotalRequests
        THEN "total_requests cannot exceed 10000 (safety limit)"
    ELSE IF config.Duration <= 0 THEN "duration must be greater than 0"
    ELSE IF config.Duration > MaxDurationSeconds
        THEN "duration cannot exceed 3600 seconds (1 hour)"
    ELSE IF config.TrafficType \notin {"", "normal", "attack"}
        THEN "traffic_type must be 'normal' or 'attack'"
    ELSE IF config.TestMode \notin {"", "baseline", "burst"}
        THEN "test_mode must be 'baseline' or 'burst'"
    ELSE IF config.UserAgentType \notin {"", "legitimate", "scanner"}
        THEN "user_agent_type must be 'legitimate' or 'scanner'"
    ELSE ""

(* The defaults both handlers set after validation *)
ApplyDefaults(config) ==
    [config EXCEPT
        !.TrafficType = IF config.TrafficType = "" THEN "normal" ELSE config.TrafficType,
        !.TestMode = IF config.TestMode = "" THEN "baseline" ELSE config.TestMode,
        !.HTTPMethod = IF config.HTTPMethod = "" THEN "GET" ELSE config.HTTPMethod]

BaseConfig ==
    [TargetURL |-> "http://x/y", TotalRequests |-> 1, Duration |-> 1,
     TrafficType |-> "", ErrorMode |-> FALSE, UserAgentType |-> "",
     CustomUserAgent |-> "", TestMode |-> "", HTTPMethod |-> "",
     CustomHeaders |-> EmptyMap, RequestBody |-> ""]

(* The configurations posted to /api/test/stream in the model: every count  *)
(* from 0 (rejected) to MaxRequests, over one or two seconds, in baseline   *)
(* (the default) and burst mode                                             *)
StreamConfigs ==
    { [BaseConfig EXCEPT !.TotalRequests = n, !.Duration = d, !.TestMode = m] :
        n \in 0..MaxRequests, d \in {1, 2}, m \in {"", "burst"} }

(* What the transport answers in a streaming session of the model *)
StreamStatuses == {200, 429}
StreamFailures == {"none", "transport"}
StreamBodies == {"ok"}

-----------------------------------------------------------------------------
(* Streaming sessions: handleStartTestStream, RunTestStreaming,             *)
(* sendRequestsConcurrently, handleStopTest                                 *)

NoConfig == [BaseConfig EXCEPT !.TargetURL = "", !.TotalRequests = 0, !.Duration = 0]

(* A ProgressUpdate; CurrentStats and FinalResult are pointers, modelled as *)
(* a sequence that is empty for nil                                         *)
ProgressUpdate(type, id, completed, total, percentage, newRequests, stats, final, at) ==
    [Type |-> type, TestID |-> id, Completed |-> completed, Total |-> total,
     Percentage |-> percentage, NewRequests |-> newRequests, CurrentStats |-> stats,
     FinalResult |-> final, Timestamp |-> at]

(* progressChan has room for one more update *)
ProgressRoom(s) == Len(events[s]) - consumed[s] < ProgressChanCap

(* registerSession *)
registerSession(registry, id, s) ==
    [k \in (DOMAIN registry) \cup {id} |-> IF k = id THEN s ELSE registry[k]]

(* unregisterSession *)
unregisterSession(registry, id) ==
    [k \in (DOMAIN registry) \ {id} |-> registry[k]]

(* fmt.Sprintf("test_%d", time.Now().Unix()) at tick t *)
NewTestID(t) == "test_" \o ToString(UnixSeconds(t))

(* handleStartTestStream, rejecting the configuration *)
StartRejected(s, configs) ==
    /\ hpc[s] = "idle"
    /\ \E raw \in configs :
        /\ ValidateConfig(raw) # ""
        /\ sessConfig' = [sessConfig EXCEPT ![s] = raw]
    /\ hpc' = [hpc EXCEPT ![s] = "rejected"]
    /\ UNCHANGED <<now, AttackPayloads, activeSessions, testID, startTime, ctxDone,
                   events, consumed, progressClosed, bpc, allRequests, batchRequests,
                   completedCount, lastSendTime, resultsChan, resultsClosed, dpc, di,
                   dstart, dresult, stopResponse, execVars, calcVars, runVars>>

(* handleStartTestStream up to the return of RunTestStreaming: the          *)
(* configuration is validated and defaulted, the context and progressChan   *)
(* are created, RunTestStreaming generates the id, sends the initial update *)
(* and launches the batching goroutine                                      *)
StartStream(s, configs) ==
    /\ hpc[s] = "idle"
    /\ \E raw \in configs :
        /\ ValidateConfig(raw) = ""
        /\ sessConfig' = [sessConfig EXCEPT ![s] = ApplyDefaults(raw)]
        /\ events' = [events EXCEPT ![s] =
              <<ProgressUpdate("progress", NewTestID(now), 0, raw.TotalRequests, 0,
                               <<>>, <<>>, <<>>, now)>>]
    /\ testID' = [testID EXCEPT ![s] = NewTestID(now)]
    /\ startTime' = [startTime EXCEPT ![s] = now]
    /\ bpc' = [bpc EXCEPT ![s] = "start"]
    /\ hpc' = [hpc EXCEPT ![s] = "register"]
    /\ UNCHANGED <<now, AttackPayloads, activeSessions, ctxDone, consumed,
                   progressClosed, allRequests, batchRequests, completedCount,
                   lastSendTime, resultsChan, resultsClosed, dpc, di, dstart, dresult,
                   stopResponse, execVars, calcVars, runVars>>

(* handleStartTestStream: registerSession(session) *)
Register(s) ==
    /\ hpc[s] = "register"
    /\ activeSessions' = registerSession(activeSessions, testID[s], s)
    /\ hpc' = [hpc EXCEPT ![s] = "stream"]
    /\ UNCHANGED <<now, AttackPayloads, sessConfig, testID, startTime, ctxDone, events,
                   consumed, progressClosed, bpc, allRequests, batchRequests,
                   completedCount, lastSendTime, resultsChan, resultsClosed, dpc, di,
                   dstart, dresult, stopResponse, execVars, calcVars, runVars>>

(* handleStartTestStream: one iteration of `for update := range progressChan` *)
StreamUpdate(s) ==
    /\ hpc[s] = "stream"
    /\ consumed[s] < Len(events[s])
    /\ consumed' = [consumed EXCEPT ![s] = @ + 1]
    /\ UNCHANGED <<now, AttackPayloads, activeSessions, hpc, sessConfig, testID,
                   startTime, ctxDone, events, progressClosed, bpc, allRequests,
                   batchRequests, completedCount, lastSendTime, resultsChan,
                   resultsClosed, dpc, di, dstart, dresult, stopResponse, execVars, calcVars, runVars>>

(* handleStartTestStream: progressChan is closed and drained, the handler   *)
(* returns; its deferred calls run: unregisterSession(testID), then cancel() *)
HandlerReturn(s) ==
    /\ hpc[s] = "stream"
    /\ consumed[s] = Len(events[s])
    /\ progressClosed[s]
    /\ activeSessions' = unregisterSession(activeSessions, testID[s])
    /\ ctxDone' = [ctxDone EXCEPT ![s] = TRUE]
    /\ hpc' = [hpc EXCEPT ![s] = "returned"]
    /\ UNCHANGED <<now, AttackPayloads, sessConfig, testID, startTime, events,
                   consumed, progressClosed, bpc, allRequests, batchRequests,
                   completedCount, lastSendTime, resultsChan, resultsClosed, dpc, di,
                   dstart, dresult, stopResponse, execVars, calcVars, runVars>>

(* The test ids a client posts to /api/test/stop in the model: those the    *)
(* sessions started so far were given (registered by now, or not yet, or    *)
(* not any more)                                                            *)
StopIDs == {testID[s] : s \in {t \in Sessions : testID[t] # None}}

NoResponse == [test_id |-> "", status |-> ""]

(* handleStopTest for test_id id *)
handleStopTest(id) ==
    /\ IF id \in DOMAIN activeSessions
       THEN /\ ctxDone' = [ctxDone EXCEPT ![activeSessions[id]] = TRUE]
            /\ stopResponse' = [test_id |-> id, status |-> "cancelled"]
       ELSE /\ ctxDone' = ctxDone
            /\ stopResponse' = [test_id |-> id, status |-> "notFound"]
    /\ UNCHANGED <<now, AttackPayloads, activeSessions, hpc, sessConfig, testID,
                   startTime, events, consumed, progressClosed, bpc, allRequests,
                   batchRequests, completedCount, lastSendTime, resultsChan,
                   resultsClosed, dpc, di, dstart, dresult, execVars, calcVars, runVars>>

(* RunTestStreaming's goroutine starts: resultsChan is made, lastSendTime   *)
(* read, the interval computed and sendRequestsConcurrently launched        *)
BatchStart(s) ==
    /\ bpc[s] = "start"
    /\ lastSendTime' = [lastSendTime EXCEPT ![s] = now]
    /\ dpc' = [dpc EXCEPT ![s] = "check"]
    /\ di' = [di EXCEPT ![s] = 1]
    /\ bpc' = [bpc EXCEPT ![s] = "recv"]
    /\ UNCHANGED <<now, AttackPayloads, activeSessions, hpc, sessConfig, testID,
                   startTime, ctxDone, events, consumed, progressClosed,
                   allRequests, batchRequests, completedCount, resultsChan,
                   resultsClosed, dstart, dresult, stopResponse, execVars, calcVars, runVars>>

(* BatchReceive without the increment of completedCount *)
BatchReceiveNoCount(s) ==
    /\ bpc[s] = "recv"
    /\ Len(resultsChan[s]) > 0
    /\ resultsChan' = [resultsChan EXCEPT ![s] = Tail(@)]
    /\ allRequests' = [allRequests EXCEPT ![s] = Append(@, Head(resultsChan[s]))]
    /\ batchRequests' = [batchRequests EXCEPT ![s] = Append(@, Head(resultsChan[s]))]
    /\ bpc' = [bpc EXCEPT ![s] = "select"]
    /\ UNCHANGED <<now, AttackPayloads, activeSessions, hpc, sessConfig, testID,
                   startTime, ctxDone, events, consumed, progressClosed, completedCount,
                   lastSendTime, resultsClosed, dpc, di, dstart, dresult, stopResponse,
                   execVars, calcVars, runVars>>

(* `for result := range resultsChan`: one outcome is received and appended  *)
BatchReceive(s) ==
    /\ bpc[s] = "recv"
    /\ Len(resultsChan[s]) > 0
    /\ resultsChan' = [resultsChan EXCEPT ![s] = Tail(@)]
    /\ completedCount' = [completedCount EXCEPT ![s] = @ + 1]
    /\ allRequests' = [allRequests EXCEPT ![s] = Append(@, Head(resultsChan[s]))]
    /\ batchRequests' = [batchRequests EXCEPT ![s] = Append(@, Head(resultsChan[s]))]
    /\ bpc' = [bpc EXCEPT ![s] = "select"]
    /\ UNCHANGED <<now, AttackPayloads, activeSessions, hpc, sessConfig, testID,
                   startTime, ctxDone, events, consumed, progressClosed,
                   lastSendTime, resultsClosed, dpc, di, dstart, dresult, stopResponse,
                   execVars, calcVars, runVars>>

(* `for result := range resultsChan` ends: the channel is closed and empty  *)
BatchRangeEnd(s) ==
    /\ bpc[s] = "recv"
    /\ Len(resultsChan[s]) = 0
    /\ resultsClosed[s]
    /\ bpc' = [bpc EXCEPT ![s] = "final"]
    /\ UNCHANGED <<now, AttackPayloads, activeSessions, hpc, sessConfig, testID,
                   startTime, ctxDone, events, consumed, progressClosed,
                   allRequests, batchRequests, completedCount, lastSendTime,
                   resultsChan, resultsClosed, dpc, di, dstart, dresult, stopResponse,
                   execVars, calcVars, runVars>>

(* BatchCancelled without its return: the loop goes on after "cancelled"    *)
BatchCancelledNoReturn(s) ==
    /\ bpc[s] = "select"
    /\ ctxDone[s]
    /\ ProgressRoom(s)
    /\ events' = [events EXCEPT ![s] = Append(@,
          ProgressUpdate("cancelled", testID[s], completedCount[s],
                         sessConfig[s].TotalRequests, 0, <<>>, <<>>, <<>>, now))]
    /\ bpc' = [bpc EXCEPT ![s] = "recv"]
    /\ UNCHANGED <<now, AttackPayloads, activeSessions, hpc, sessConfig, testID,
                   startTime, ctxDone, consumed, progressClosed, allRequests,
                   batchRequests, completedCount, lastSendTime, resultsChan,
                   resultsClosed, dpc, di, dstart, dresult, stopResponse, execVars, calcVars, runVars>>

(* the body of the loop after the appends, context cancelled: the           *)
(* "cancelled" update is sent and the goroutine returns                     *)
BatchCancelled(s) ==
    /\ bpc[s] = "select"
    /\ ctxDone[s]
    /\ ProgressRoom(s)
    /\ events' = [events EXCEPT ![s] = Append(@,
          ProgressUpdate("cancelled", testID[s], completedCount[s],
                         sessConfig[s].TotalRequests, 0, <<>>, <<>>, <<>>, now))]
    /\ bpc' = [bpc EXCEPT ![s] = "exit"]
    /\ UNCHANGED <<now, AttackPayloads, activeSessions, hpc, sessConfig, testID,
                   startTime, ctxDone, consumed, progressClosed, allRequests,
                   batchRequests, completedCount, lastSendTime, resultsChan,
                   resultsClosed, dpc, di, dstart, dresult, stopResponse, execVars, calcVars, runVars>>

(* BatchIsComplete, defined below: all requests completed                   *)
BatchDueOnlyComplete(s) == completedCount[s] >= sessConfig[s].TotalRequests

(* whether the loop body sends a batch: a second since the last one, or all *)
(* requests completed                                                       *)
BatchIsComplete(s) == completedCount[s] >= sessConfig[s].TotalRequests

BatchDue(s) ==
    \/ (now - lastSendTime[s]) * TickMs >= BatchWindowMs
    \/ BatchIsComplete(s)

(* BatchProgress with the statistics computed over the batch alone         *)
BatchProgressBatchStats(s) ==
    /\ bpc[s] = "select"
    /\ ~ctxDone[s]
    /\ IF (now - lastSendTime[s]) * TickMs >= BatchWindowMs
            \/ completedCount[s] >= sessConfig[s].TotalRequests
       THEN /\ ProgressRoom(s)
            /\ events' = [events EXCEPT ![s] = Append(@,
                  ProgressUpdate("progress", testID[s], completedCount[s],
                      sessConfig[s].TotalRequests,
                      (completedCount[s] * 100) \div sessConfig[s].TotalRequests,
                      batchRequests[s], <<calculateIncrementalStats(batchRequests[s])>>,
                      <<>>, now))]
            /\ batchRequests' = [batchRequests EXCEPT ![s] = <<>>]
            /\ lastSendTime' = [lastSendTime EXCEPT ![s] = now]
       ELSE UNCHANGED <<events, batchRequests, lastSendTime>>
    /\ bpc' = [bpc EXCEPT ![s] =
                  IF completedCount[s] >= sessConfig[s].TotalRequests THEN "final" ELSE "recv"]
    /\ UNCHANGED <<now, AttackPayloads, activeSessions, hpc, sessConfig, testID,
                   startTime, ctxDone, consumed, progressClosed, allRequests,
                   completedCount, resultsChan, resultsClosed, dpc, di, dstart,
                   dresult, stopResponse, execVars, calcVars, runVars>>

(* the body of the loop after the appends, context not cancelled: the batch *)
(* is sent when due, and the loop breaks when all requests completed        *)
BatchProgress(s) ==
    /\ bpc[s] = "select"
    /\ ~ctxDone[s]
    /\ IF BatchDue(s)
       THEN /\ ProgressRoom(s)
            /\ events' = [events EXCEPT ![s] = Append(@,
                  ProgressUpdate("progress", testID[s], completedCount[s],
                      sessConfig[s].TotalRequests,
                      (completedCount[s] * 100) \div sessConfig[s].TotalRequests,
                      batchRequests[s], <<calculateIncrementalStats(allRequests[s])>>,
                      <<>>, now))]
            /\ batchRequests' = [batchRequests EXCEPT ![s] = <<>>]
            /\ lastSendTime' = [lastSendTime EXCEPT ![s] = now]
       ELSE UNCHANGED <<events, batchRequests, lastSendTime>>
    /\ bpc' = [bpc EXCEPT ![s] = IF BatchIsComplete(s) THEN "final" ELSE "recv"]
    /\ UNCHANGED <<now, AttackPayloads, activeSessions, hpc, sessConfig, testID,
                   startTime, ctxDone, consumed, progressClosed, allRequests,
                   completedCount, resultsChan, resultsClosed, dpc, di, dstart,
                   dresult, stopResponse, execVars, calcVars, runVars>>

(* after the loop: buildFinalResult and the "complete" update               *)
BatchFinal(s) ==
    /\ bpc[s] = "final"
    /\ ProgressRoom(s)
    /\ events' = [events EXCEPT ![s] = Append(@,
          ProgressUpdate("complete", testID[s], sessConfig[s].TotalRequests,
              sessConfig[s].TotalRequests, 100, <<>>, <<>>,
              <<buildFinalResult(testID[s], allRequests[s], startTime[s], now)>>, now))]
    /\ bpc' = [bpc EXCEPT ![s] = "exit"]
    /\ UNCHANGED <<now, AttackPayloads, activeSessions, hpc, sessConfig, testID,
                   startTime, ctxDone, consumed, progressClosed, allRequests,
                   batchRequests, completedCount, lastSendTime, resultsChan,
                   resultsClosed, dpc, di, dstart, dresult, stopResponse, execVars, calcVars, runVars>>

(* the goroutine returns: the deferred close(progressChan)                  *)
BatchClose(s) ==
    /\ bpc[s] = "exit"
    /\ progressClosed' = [progressClosed EXCEPT ![s] = TRUE]
    /\ bpc' = [bpc EXCEPT ![s] = "closed"]
    /\ UNCHANGED <<now, AttackPayloads, activeSessions, hpc, sessConfig, testID,
                   startTime, ctxDone, events, consumed, allRequests,
                   batchRequests, completedCount, lastSendTime, resultsChan,
                   resultsClosed, dpc, di, dstart, dresult, stopResponse, execVars, calcVars, runVars>>

(* DispatchCheck without the check of the context                          *)
DispatchCheckNoCancel(s) ==
    /\ dpc[s] = "check"
    /\ dpc' = [dpc EXCEPT ![s] = "inflight"]
    /\ dstart' = [dstart EXCEPT ![s] = now]
    /\ UNCHANGED <<now, AttackPayloads, activeSessions, hpc, sessConfig, testID,
                   startTime, ctxDone, events, consumed, progressClosed, bpc,
                   allRequests, batchRequests, completedCount, lastSendTime,
                   resultsChan, resultsClosed, di, dresult, stopResponse, execVars,
                   calcVars, runVars>>

(* sendRequestsConcurrently, top of an iteration: the context is checked;   *)
(* cancelled, the function returns and its deferred close(resultsChan)      *)
(* runs; otherwise sendRequest(i, config) begins                            *)
DispatchCheck(s) ==
    /\ dpc[s] = "check"
    /\ IF ctxDone[s]
       THEN /\ resultsClosed' = [resultsClosed EXCEPT ![s] = TRUE]
            /\ dpc' = [dpc EXCEPT ![s] = "done"]
            /\ UNCHANGED dstart
       ELSE /\ dpc' = [dpc EXCEPT ![s] = "inflight"]
            /\ dstart' = [dstart EXCEPT ![s] = now]
            /\ UNCHANGED resultsClosed
    /\ UNCHANGED <<now, AttackPayloads, activeSessions, hpc, sessConfig, testID,
                   startTime, ctxDone, events, consumed, progressClosed, bpc,
                   allRequests, batchRequests, completedCount, lastSendTime,
                   resultsChan, di, dresult, stopResponse, execVars, calcVars, runVars>>

(* DispatchResult with the outcome thrown away and the next request issued  *)
(* at once                                                                  *)
DispatchResultNoEnqueue(s, statuses, failures) ==
    /\ dpc[s] = "inflight"
    /\ di[s] < sessConfig[s].TotalRequests
    /\ di' = [di EXCEPT ![s] = @ + 1]
    /\ UNCHANGED <<now, AttackPayloads, activeSessions, hpc, sessConfig, testID,
                   startTime, ctxDone, events, consumed, progressClosed, bpc,
                   allRequests, batchRequests, completedCount, lastSendTime,
                   resultsChan, resultsClosed, dpc, dstart, dresult, stopResponse,
                   execVars, calcVars, runVars>>

(* sendRequest(i, config) returns its outcome                               *)
DispatchResult(s, statuses, failures) ==
    /\ dpc[s] = "inflight"
    /\ \E d \in Draws(AttackPayloads, sessConfig[s], statuses, StreamBodies, failures) :
          /\ dresult' = [dresult EXCEPT ![s] =
                <<sendRequest(di[s], sessConfig[s], d, dstart[s],
                              (now - dstart[s]) * TickMs)>>]
          /\ sessConfig' = [sessConfig EXCEPT ![s].CustomHeaders =
                                CustomHeadersAfter(sessConfig[s], d)]
    /\ dpc' = [dpc EXCEPT ![s] = "enqueue"]
    /\ UNCHANGED <<now, AttackPayloads, activeSessions, hpc, testID,
                   startTime, ctxDone, events, consumed, progressClosed, bpc,
                   allRequests, batchRequests, completedCount, lastSendTime,
                   resultsChan, resultsClosed, di, dstart, stopResponse, execVars, calcVars, runVars>>

(* DispatchEnqueue into a channel without a capacity *)
DispatchEnqueueUnbounded(s) ==
    /\ dpc[s] = "enqueue"
    /\ resultsChan' = [resultsChan EXCEPT ![s] = Append(@, dresult[s][1])]
    /\ dresult' = [dresult EXCEPT ![s] = <<>>]
    /\ IF di[s] < sessConfig[s].TotalRequests
       THEN /\ dpc' = [dpc EXCEPT ![s] = "wait"]
            /\ dstart' = [dstart EXCEPT ![s] = now]
            /\ UNCHANGED resultsClosed
       ELSE /\ dpc' = [dpc EXCEPT ![s] = "done"]
            /\ resultsClosed' = [resultsClosed EXCEPT ![s] = TRUE]
            /\ UNCHANGED dstart
    /\ UNCHANGED <<now, AttackPayloads, activeSessions, hpc, sessConfig, testID,
                   startTime, ctxDone, events, consumed, progressClosed, bpc,
                   allRequests, batchRequests, completedCount, lastSendTime, di,
                   stopResponse, execVars, calcVars, runVars>>

(* after enqueueing or timing out: the wait before the next request, or the *)
(* end of the loop with the deferred close(resultsChan)                     *)
DispatchEnqueue(s) ==
    /\ dpc[s] = "enqueue"
    /\ Len(resultsChan[s]) < ResultsChanCap
    /\ resultsChan' = [resultsChan EXCEPT ![s] = Append(@, dresult[s][1])]
    /\ dresult' = [dresult EXCEPT ![s] = <<>>]
    /\ IF di[s] < sessConfig[s].TotalRequests
       THEN /\ dpc' = [dpc EXCEPT ![s] = "wait"]
            /\ dstart' = [dstart EXCEPT ![s] = now]
            /\ UNCHANGED resultsClosed
       ELSE /\ dpc' = [dpc EXCEPT ![s] = "done"]
            /\ resultsClosed' = [resultsClosed EXCEPT ![s] = TRUE]
            /\ UNCHANGED dstart
    /\ UNCHANGED <<now, AttackPayloads, activeSessions, hpc, sessConfig, testID,
                   startTime, ctxDone, events, consumed, progressClosed, bpc,
                   allRequests, batchRequests, completedCount, lastSendTime, di,
                   stopResponse, execVars, calcVars, runVars>>

(* DispatchEnqueueCancelled without the deferred close(resultsChan)         *)
DispatchEnqueueCancelledNoClose(s) ==
    /\ dpc[s] = "enqueue"
    /\ ctxDone[s]
    /\ dpc' = [dpc EXCEPT ![s] = "done"]
    /\ UNCHANGED <<now, AttackPayloads, activeSessions, hpc, sessConfig, testID,
                   startTime, ctxDone, events, consumed, progressClosed, bpc,
                   allRequests, batchRequests, completedCount, lastSendTime,
                   resultsChan, resultsClosed, di, dstart, dresult, stopResponse,
                   execVars, calcVars, runVars>>

(* the select around the enqueue takes <-ctx.Done(): return and close       *)
DispatchEnqueueCancelled(s) ==
    /\ dpc[s] = "enqueue"
    /\ ctxDone[s]
    /\ dpc' = [dpc EXCEPT ![s] = "done"]
    /\ resultsClosed' = [resultsClosed EXCEPT ![s] = TRUE]
    /\ UNCHANGED <<now, AttackPayloads, activeSessions, hpc, sessConfig, testID,
                   startTime, ctxDone, events, consumed, progressClosed, bpc,
                   allRequests, batchRequests, completedCount, lastSendTime,
                   resultsChan, di, dstart, dresult, stopResponse, execVars, calcVars, runVars>>

(* DispatchTimer without i++: the same sequence number is sent again        *)
DispatchTimerRetry(s) ==
    /\ dpc[s] = "wait"
    /\ (now - dstart[s]) * TickMs >= calculateInterval(sessConfig[s])
    /\ dpc' = [dpc EXCEPT ![s] = "check"]
    /\ UNCHANGED <<now, AttackPayloads, activeSessions, hpc, sessConfig, testID,
                   startTime, ctxDone, events, consumed, progressClosed, bpc,
                   allRequests, batchRequests, completedCount, lastSendTime,
                   resultsChan, resultsClosed, di, dstart, dresult, stopResponse,
                   execVars, calcVars, runVars>>

(* the select of the wait takes the timer: the next iteration begins        *)
DispatchTimer(s) ==
    /\ dpc[s] = "wait"
    /\ (now - dstart[s]) * TickMs >= calculateInterval(sessConfig[s])
    /\ di' = [di EXCEPT ![s] = @ + 1]
    /\ dpc' = [dpc EXCEPT ![s] = "check"]
    /\ UNCHANGED <<now, AttackPayloads, activeSessions, hpc, sessConfig, testID,
                   startTime, ctxDone, events, consumed, progressClosed, bpc,
                   allRequests, batchRequests, completedCount, lastSendTime,
                   resultsChan, resultsClosed, dstart, dresult, stopResponse, execVars, calcVars, runVars>>

(* DispatchWaitCancelled without the deferred close(resultsChan)            *)
DispatchWaitCancelledNoClose(s) ==
    /\ dpc[s] = "wait"
    /\ ctxDone[s]
    /\ dpc' = [dpc EXCEPT ![s] = "done"]
    /\ UNCHANGED <<now, AttackPayloads, activeSessions, hpc, sessConfig, testID,
                   startTime, ctxDone, events, consumed, progressClosed, bpc,
                   allRequests, batchRequests, completedCount, lastSendTime,
                   resultsChan, resultsClosed, di, dstart, dresult, stopResponse,
                   execVars, calcVars, runVars>>

(* the select of the wait takes <-ctx.Done(): return and close              *)
DispatchWaitCancelled(s) ==
    /\ dpc[s] = "wait"
    /\ ctxDone[s]
    /\ dpc' = [dpc EXCEPT ![s] = "done"]
    /\ resultsClosed' = [resultsClosed EXCEPT ![s] = TRUE]
    /\ UNCHANGED <<now, AttackPayloads, activeSessions, hpc, sessConfig, testID,
                   startTime, ctxDone, events, consumed, progressClosed, bpc,
                   allRequests, batchRequests, completedCount, lastSendTime,
                   resultsChan, di, dstart, dresult, stopResponse, execVars, calcVars, runVars>>

(* the clock advances by one tick *)
Tick(limit) ==
    /\ now < limit
    /\ now' = now + 1
    /\ UNCHANGED <<AttackPayloads, streamVars, execVars, calcVars, runVars>>

(* the timer of a waiting dispatcher has not fired yet                      *)
TimerPending(s) ==
    dpc[s] = "wait" /\ (now - dstart[s]) * TickMs < calculateInterval(sessConfig[s])

(* time passes while a timer is pending: time.After fires in the end        *)
TickForTimer ==
    /\ \E s \in Sessions : TimerPending(s)
    /\ now' = now + 1
    /\ UNCHANGED <<AttackPayloads, streamVars, execVars, calcVars, runVars>>

(* the dispatcher has a step it takes without waiting for anything: its     *)
(* context check, an enqueue into a channel with room, a timer that fired   *)
DispatchReady(s) ==
    \/ dpc[s] = "check"
    \/ dpc[s] = "enqueue" /\ Len(resultsChan[s]) < ResultsChanCap
    \/ dpc[s] = "wait" /\ ~TimerPending(s)

(* the clock of a machine that schedules the dispatcher at once: time       *)
(* passes only while every dispatcher is inside sendRequest or in its wait  *)
TickPaced(limit) ==
    /\ \A s \in Sessions : ~DispatchReady(s)
    /\ Tick(limit)

-----------------------------------------------------------------------------
(* The non-streaming test: handleStartTest and RunTest                      *)

(* handleStartTest, rejecting the configuration *)
RunRejected(configs) ==
    /\ rpc = "idle"
    /\ \E raw \in configs :
        /\ ValidateConfig(raw) # ""
        /\ rconfig' = raw
    /\ rpc' = "rejected"
    /\ UNCHANGED <<now, AttackPayloads, streamVars, execVars, calcVars,
                   rresult, ri, rsince, testStartTime>>

(* handleStartTest validates the configuration, sets the defaults and calls *)
(* RunTest, which makes its result and reads testStartTime                  *)
RunStart(configs) ==
    /\ rpc = "idle"
    /\ \E raw \in configs :
        /\ ValidateConfig(raw) = ""
        /\ rconfig' = ApplyDefaults(raw)
    /\ rresult' = [ZeroResult EXCEPT !.TestID = NewTestID(now), !.StartTime = now]
    /\ testStartTime' = now
    /\ ri' = 1
    /\ rpc' = "send"
    /\ UNCHANGED <<now, AttackPayloads, streamVars, execVars, calcVars, rsince>>

(* RunTest calls sendRequest(i, config) *)
RunSend ==
    /\ rpc = "send"
    /\ ri <= rconfig.TotalRequests
    /\ rsince' = now
    /\ rpc' = "inflight"
    /\ UNCHANGED <<now, AttackPayloads, streamVars, execVars, calcVars,
                   rconfig, rresult, ri, testStartTime>>

(* RunResult recording the number of every blocked outcome *)
RunResultLastBlocked(statuses, failures) ==
    /\ rpc = "inflight"
    /\ \E d \in Draws(AttackPayloads, rconfig, statuses, StreamBodies, failures) :
          LET requestResult == sendRequest(ri, rconfig, d, rsince, (now - rsince) * TickMs)
          IN  rresult' = [rresult EXCEPT
                  !.Requests = Append(@, requestResult),
                  !.RateLimitHit = @ \/ requestResult.WasBlocked,
                  !.RateLimitAt = IF requestResult.WasBlocked THEN ri ELSE @]
    /\ rsince' = now
    /\ rpc' = IF ri < rconfig.TotalRequests THEN "sleep" ELSE "after"
    /\ UNCHANGED <<now, AttackPayloads, streamVars, execVars, calcVars,
                   rconfig, ri, testStartTime>>

(* sendRequest returns: the outcome is appended, the first blocked outcome  *)
(* sets RateLimitHit and RateLimitAt, and the loop sleeps unless this was   *)
(* the last request                                                         *)
RunResult(statuses, failures) ==
    /\ rpc = "inflight"
    /\ \E d \in Draws(AttackPayloads, rconfig, statuses, StreamBodies, failures) :
          LET requestResult == sendRequest(ri, rconfig, d, rsince, (now - rsince) * TickMs)
              first == requestResult.WasBlocked /\ ~rresult.RateLimitHit
          IN  rresult' = [rresult EXCEPT
                  !.Requests = Append(@, requestResult),
                  !.RateLimitHit = IF first THEN TRUE ELSE @,
                  !.RateLimitAt = IF first THEN ri ELSE @]
    /\ rsince' = now
    /\ rpc' = IF ri < rconfig.TotalRequests THEN "sleep" ELSE "after"
    /\ UNCHANGED <<now, AttackPayloads, streamVars, execVars, calcVars,
                   rconfig, ri, testStartTime>>

(* time.Sleep(intervalMs) returns and the loop goes on with i + 1 *)
RunSleepEnd ==
    /\ rpc = "sleep"
    /\ (now - rsince) * TickMs >= RunTestInterval(rconfig)
    /\ ri' = ri + 1
    /\ rpc' = "send"
    /\ UNCHANGED <<now, AttackPayloads, streamVars, execVars, calcVars,
                   rconfig, rresult, rsince, testStartTime>>

(* what is left of Duration at tick t, in milliseconds *)
RemainingMs(t) == rconfig.Duration * 1000 - (t - testStartTime) * TickMs

(* RunAfter without the sleep of burst mode *)
RunAfterNoSleep ==
    /\ rpc = "after"
    /\ rsince' = now
    /\ rpc' = "finish"
    /\ UNCHANGED <<now, AttackPayloads, streamVars, execVars, calcVars,
                   rconfig, rresult, ri, testStartTime>>

(* after the loop: in burst mode the time elapsed since testStartTime is    *)
(* read and, if some of Duration remains, RunTest sleeps for it             *)
RunAfter ==
    /\ rpc = "after"
    /\ rsince' = now
    /\ rpc' = IF rconfig.TestMode = "burst" /\ RemainingMs(now) > 0
              THEN "remaining" ELSE "finish"
    /\ UNCHANGED <<now, AttackPayloads, streamVars, execVars, calcVars,
                   rconfig, rresult, ri, testStartTime>>

(* the sleep for the remaining time returns *)
RunRemainingEnd ==
    /\ rpc = "remaining"
    /\ (now - rsince) * TickMs >= RemainingMs(rsince)
    /\ rpc' = "finish"
    /\ UNCHANGED <<now, AttackPayloads, streamVars, execVars, calcVars,
                   rconfig, rresult, ri, rsince, testStartTime>>

(* EndTime and TotalRequests are set, calculateStatistics fills the result  *)
(* in and RunTest returns it                                                *)
RunFinish ==
    /\ rpc = "finish"
    /\ rresult' = calculateStatistics(
                      [rresult EXCEPT !.EndTime = now, !.TotalRequests = Len(rresult.Requests)])
    /\ rpc' = "returned"
    /\ UNCHANGED <<now, AttackPayloads, streamVars, execVars, calcVars,
                   rconfig, ri, rsince, testStartTime>>

-----------------------------------------------------------------------------
(* The request executor on its own: sendRequest for one configuration      *)

ExecConfigs ==
    { ApplyDefaults([BaseConfig EXCEPT !.TargetURL = u, !.TrafficType = tt,
                        !.ErrorMode = em, !.UserAgentType = ut,
                        !.CustomUserAgent = cu, !.HTTPMethod = m,
                        !.CustomHeaders = h, !.RequestBody = b]) :
        u \in {"http://x/y", "http://x/y?a=1", "http://x/"},
        tt \in {"", "normal", "attack"}, em \in BOOLEAN,
        ut \in {"", "legitimate", "scanner"}, cu \in {"", "MyCompany-Monitor/2.0"},
        m \in {"", "GET", "POST"},
        h \in {EmptyMap, [k \in {"X-API-Key"} |-> "secret"]},
        b \in {"", "{\"a\": 1}"} }

ExecStatuses == {200, 403, 406, 429, 500}
ExecFailures == {"none", "create", "transport", "read"}
ExecBodies == {"ok"}
NoResult == <<>>

(* sendRequest(1, xconfig) runs to its return *)
ExecSendRequest ==
    /\ xresult = NoResult
    /\ xconfig # NoConfig
    /\ \E d \in Draws(AttackPayloads, xconfig, ExecStatuses, ExecBodies, ExecFailures),
          elapsed \in 0..1 :
          xresult' = <<sendRequest(1, xconfig, d, now, elapsed * TickMs)>>
    /\ UNCHANGED <<now, AttackPayloads, streamVars, xconfig, calcVars, runVars>>

-----------------------------------------------------------------------------
(* The calculators on their own: calculateInterval, calculatePercentile and *)
(* calculateResponseTimePercentiles, each called once on given arguments    *)

MaxIntervalRequests == 30
MaxIntervalDuration == 10
MaxSorted == 100
MaxLatencies == 4
MaxDescending == 40

IntervalRequests == (1..MaxIntervalRequests) \cup {1000, 1001, 3600, 9999, MaxTotalRequests}
IntervalDurations == (1..MaxIntervalDuration) \cup {59, 60, 3599, MaxDurationSeconds}

(* The configurations posted with these counts, durations and modes         *)
IntervalConfigs ==
    { [BaseConfig EXCEPT !.TotalRequests = n, !.Duration = d, !.TestMode = m] :
        n \in IntervalRequests, d \in IntervalDurations, m \in {"", "baseline", "burst"} }

Ascending(n) == [i \in 1..n |-> i]
Descending(n) == [i \in 1..n |-> n - i]

(* Sorted slices handed to calculatePercentile *)
SortedLists == {Ascending(n) : n \in 0..MaxSorted}
Percentiles == 0..100

(* Response times handed to calculateResponseTimePercentiles, in any order  *)
LatencyValues == {0, 1, 3}
LatencyLists ==
    UNION {[1..k -> LatencyValues] : k \in 0..MaxLatencies}
        \cup {Descending(n) : n \in 1..MaxDescending}

(* the response times of the outcomes calculateStatistics is given, and    *)
(* how the requests that took 0 ms ended: answered within the millisecond   *)
(* ("none"), never sent ("create"), or answered with a body that could not  *)
(* be read ("read")                                                         *)
StatisticsLists == UNION {[1..k -> LatencyValues] : k \in 0..MaxLatencies}
StatisticsFailures == {"none", "create", "read"}

(* the outcomes sendRequest returns for these response times *)
StatisticsOutcomes(values, failure) ==
    [i \in 1..Len(values) |->
        sendRequest(i, ApplyDefaults(BaseConfig),
            [attackType |-> "sql", payload |-> "", attackAgent |-> "",
             agent |-> FallbackLegitimateAgent, rand |-> 7,
             failure |-> IF values[i] = 0 THEN failure ELSE "none",
             status |-> 200, body |-> "ok"],
            0, values[i])]

(* the configurations BuildAttackRequest is called with: attack traffic,    *)
(* with and without a query in the URL, every kind of method, and bodies    *)
(* that end in no, one and two closing braces                               *)
AttackConfigs ==
    { [BaseConfig EXCEPT !.TargetURL = u, !.TrafficType = "attack", !.HTTPMethod = m,
                         !.CustomHeaders = h, !.RequestBody = b] :
        u \in {"http://x/y", "http://x/y?a=1"},
        m \in {"", "GET", "POST", "DELETE"},
        h \in {EmptyMap, [k \in {"X-API-Key"} |-> "secret"]},
        b \in {"", "{\"a\": 1}", "{\"a\": {}}", "[1]"} }

CalcIdle ==
    [fn |-> "none", config |-> NoConfig, values |-> <<>>, percentile |-> 0,
     failure |-> "none"]
NoOutput == <<>>

CalcInputs ==
    {[CalcIdle EXCEPT !.fn = "interval", !.config = c] : c \in IntervalConfigs}
        \cup {[CalcIdle EXCEPT !.fn = "percentile", !.values = v, !.percentile = q] :
                v \in SortedLists, q \in Percentiles}
        \cup {[CalcIdle EXCEPT !.fn = "percentiles", !.values = v] : v \in LatencyLists}
        \cup {[CalcIdle EXCEPT !.fn = "statistics", !.values = v, !.failure = f] :
                v \in StatisticsLists, f \in StatisticsFailures}
        \cup {[CalcIdle EXCEPT !.fn = "attack", !.config = c] : c \in AttackConfigs}

(* the handler validates the configuration, sets the defaults, and the      *)
(* interval is computed by calculateInterval (streaming) and inline by      *)
(* RunTest                                                                  *)
CalcInterval ==
    /\ calcIn.fn = "interval"
    /\ calcOut = NoOutput
    /\ calcOut' = <<[error |-> ValidateConfig(calcIn.config),
                     interval |-> calculateInterval(ApplyDefaults(calcIn.config)),
                     runTest |-> RunTestInterval(ApplyDefaults(calcIn.config))]>>
    /\ UNCHANGED <<now, AttackPayloads, streamVars, execVars, calcIn, runVars>>

(* calculatePercentile(values, percentile) returns *)
CalcPercentile ==
    /\ calcIn.fn = "percentile"
    /\ calcOut = NoOutput
    /\ calcOut' = <<[value |-> calculatePercentile(calcIn.values, calcIn.percentile)]>>
    /\ UNCHANGED <<now, AttackPayloads, streamVars, execVars, calcIn, runVars>>

(* calculateResponseTimePercentiles(values) returns; sortInts sorts a copy, *)
(* the caller's slice is not written                                        *)
CalcResponseTimePercentiles ==
    /\ calcIn.fn = "percentiles"
    /\ calcOut = NoOutput
    /\ LET pct == calculateResponseTimePercentiles(calcIn.values)
       IN  calcOut' = <<[p50 |-> pct.p50, p95 |-> pct.p95, p99 |-> pct.p99,
                         p100 |-> calculatePercentile(sortInts(calcIn.values), 100)]>>
    /\ UNCHANGED <<now, AttackPayloads, streamVars, execVars, calcIn, runVars>>

(* calculateStatistics(&result) returns, called as RunTest and              *)
(* buildFinalResult call it: TotalRequests is len(result.Requests)          *)
CalcStatistics ==
    /\ calcIn.fn = "statistics"
    /\ calcOut = NoOutput
    /\ LET requests == StatisticsOutcomes(calcIn.values, calcIn.failure)
       IN  calcOut' = <<calculateStatistics(
                          [ZeroResult EXCEPT !.Requests = requests,
                                             !.TotalRequests = Len(requests)])>>
    /\ UNCHANGED <<now, AttackPayloads, streamVars, execVars, calcIn, runVars>>

(* BuildAttackRequest(config) returns, with the attack type and payload it  *)
(* drew                                                                     *)
CalcBuildAttackRequest ==
    /\ calcIn.fn = "attack"
    /\ calcOut = NoOutput
    /\ \E d \in Draws(AttackPayloads, calcIn.config, {200}, {"ok"}, {"none"}) :
          calcOut' = <<[built |-> BuildAttackRequest(calcIn.config, d),
                        attackType |-> d.attackType, payload |-> d.payload]>>
    /\ UNCHANGED <<now, AttackPayloads, streamVars, execVars, calcIn, runVars>>

-----------------------------------------------------------------------------
(* Specifications *)

StreamIdle ==
    /\ activeSessions = [k \in {} |-> 0]
    /\ hpc = [s \in Sessions |-> "idle"]
    /\ sessConfig = [s \in Sessions |-> NoConfig]
    /\ testID = [s \in Sessions |-> None]
    /\ startTime = [s \in Sessions |-> 0]
    /\ ctxDone = [s \in Sessions |-> FALSE]
    /\ events = [s \in Sessions |-> <<>>]
    /\ consumed = [s \in Sessions |-> 0]
    /\ progressClosed = [s \in Sessions |-> FALSE]
    /\ bpc = [s \in Sessions |-> "none"]
    /\ allRequests = [s \in Sessions |-> <<>>]
    /\ batchRequests = [s \in Sessions |-> <<>>]
    /\ completedCount = [s \in Sessions |-> 0]
    /\ lastSendTime = [s \in Sessions |-> 0]
    /\ resultsChan = [s \in Sessions |-> <<>>]
    /\ resultsClosed = [s \in Sessions |-> FALSE]
    /\ dpc = [s \in Sessions |-> "none"]
    /\ di = [s \in Sessions |-> 0]
    /\ dstart = [s \in Sessions |-> 0]
    /\ dresult = [s \in Sessions |-> <<>>]
    /\ stopResponse = NoResponse

RunIdle ==
    /\ rpc = "idle"
    /\ rconfig = NoConfig
    /\ rresult = ZeroResult
    /\ ri = 0
    /\ rsince = 0
    /\ testStartTime = 0

(* The server after start-up with its payload files loaded; no test yet     *)
Init ==
    /\ now = 0
    /\ AttackPayloads = LoadedPools
    /\ StreamIdle
    /\ xconfig = NoConfig
    /\ xresult = NoResult
    /\ calcIn = CalcIdle
    /\ calcOut = NoOutput
    /\ RunIdle

(* One streaming session, with every configuration of StreamConfigs        *)
Solo == {1}

Next ==
    \/ Tick(MaxTime)
    \/ \E s \in Solo : StartRejected(s, StreamConfigs)
    \/ \E s \in Solo : StartStream(s, StreamConfigs)
    \/ \E s \in Solo : Register(s)
    \/ \E s \in Solo : StreamUpdate(s)
    \/ \E s \in Solo : HandlerReturn(s)
    \/ \E id \in StopIDs : handleStopTest(id)
    \/ \E s \in Solo : BatchStart(s)
    \/ \E s \in Solo : BatchReceive(s)
    \/ \E s \in Solo : BatchRangeEnd(s)
    \/ \E s \in Solo : BatchCancelled(s)
    \/ \E s \in Solo : BatchProgress(s)
    \/ \E s \in Solo : BatchFinal(s)
    \/ \E s \in Solo : BatchClose(s)
    \/ \E s \in Solo : DispatchCheck(s)
    \/ \E s \in Solo : DispatchResult(s, StreamStatuses, StreamFailures)
    \/ \E s \in Solo : DispatchEnqueue(s)
    \/ \E s \in Solo : DispatchEnqueueCancelled(s)
    \/ \E s \in Solo : DispatchTimer(s)
    \/ \E s \in Solo : DispatchWaitCancelled(s)

Spec == Init /\ [][Next]_vars

(* Concurrent streaming sessions sharing the registry and the clock, each   *)
(* posting one request; with a single request sendRequestsConcurrently      *)
(* never reaches its wait, so the two actions of the wait are left out      *)
RegistryConfigs == {BaseConfig}

RegistryStatuses == {200}
RegistryFailures == {"none"}

NextRegistry ==
    \/ Tick(MaxTimeRegistry)
    \/ \E s \in Sessions : StartStream(s, RegistryConfigs)
    \/ \E s \in Sessions : Register(s)
    \/ \E s \in Sessions : StreamUpdate(s)
    \/ \E s \in Sessions : HandlerReturn(s)
    \/ \E id \in StopIDs : handleStopTest(id)
    \/ \E s \in Sessions : BatchStart(s)
    \/ \E s \in Sessions : BatchReceive(s)
    \/ \E s \in Sessions : BatchRangeEnd(s)
    \/ \E s \in Sessions : BatchCancelled(s)
    \/ \E s \in Sessions : BatchProgress(s)
    \/ \E s \in Sessions : BatchFinal(s)
    \/ \E s \in Sessions : BatchClose(s)
    \/ \E s \in Sessions : DispatchCheck(s)
    \/ \E s \in Sessions : DispatchResult(s, RegistryStatuses, RegistryFailures)
    \/ \E s \in Sessions : DispatchEnqueue(s)
    \/ \E s \in Sessions : DispatchEnqueueCancelled(s)

SpecRegistry == Init /\ [][NextRegistry]_vars

(* One streaming session under fair scheduling: the handler, the batching   *)
(* goroutine and the dispatcher each take their next step in the end, every *)
(* call of sendRequest returns, and a pending timer fires                   *)
MaxTimeLive == 1

LiveConfigs ==
    { [BaseConfig EXCEPT !.TotalRequests = n, !.TestMode = m] :
        n \in 1..MaxRequests, m \in {"", "burst"} }

LiveStatuses == {200}
LiveFailures == {"none"}

HandlerStep(s) == Register(s) \/ StreamUpdate(s) \/ HandlerReturn(s)

BatcherStep(s) ==
    \/ BatchStart(s) \/ BatchReceive(s) \/ BatchRangeEnd(s) \/ BatchCancelled(s)
    \/ BatchProgress(s) \/ BatchFinal(s) \/ BatchClose(s)

DispatcherStep(s) ==
    \/ DispatchCheck(s) \/ DispatchResult(s, LiveStatuses, LiveFailures)
    \/ DispatchEnqueue(s) \/ DispatchEnqueueCancelled(s)
    \/ DispatchTimer(s) \/ DispatchWaitCancelled(s)

NextLive ==
    \/ Tick(MaxTimeLive)
    \/ TickForTimer
    \/ \E s \in Solo : StartStream(s, LiveConfigs)
    \/ \E s \in Solo : Register(s)
    \/ \E s \in Solo : StreamUpdate(s)
    \/ \E s \in Solo : HandlerReturn(s)
    \/ \E id \in StopIDs : handleStopTest(id)
    \/ \E s \in Solo : BatchStart(s)
    \/ \E s \in Solo : BatchReceive(s)
    \/ \E s \in Solo : BatchRangeEnd(s)
    \/ \E s \in Solo : BatchCancelled(s)
    \/ \E s \in Solo : BatchProgress(s)
    \/ \E s \in Solo : BatchFinal(s)
    \/ \E s \in Solo : BatchClose(s)
    \/ \E s \in Solo : DispatchCheck(s)
    \/ \E s \in Solo : DispatchResult(s, LiveStatuses, LiveFailures)
    \/ \E s \in Solo : DispatchEnqueue(s)
    \/ \E s \in Solo : DispatchEnqueueCancelled(s)
    \/ \E s \in Solo : DispatchTimer(s)
    \/ \E s \in Solo : DispatchWaitCancelled(s)

Fairness ==
    /\ WF_vars(TickForTimer)
    /\ \A s \in Solo :
          /\ WF_vars(HandlerStep(s))
          /\ WF_vars(BatcherStep(s))
          /\ WF_vars(DispatcherStep(s))

SpecLive == Init /\ [][NextLive]_vars /\ Fairness

(* One streaming session that is never stopped, its dispatcher scheduled    *)
(* without delay, each request taking any number of ticks                   *)
MaxTimePaced == 3

PacedConfigs ==
    { [BaseConfig EXCEPT !.TotalRequests = MaxRequests, !.Duration = d, !.TestMode = m] :
        d \in {1, MaxRequests}, m \in {"", "baseline", "burst"} }

NextPaced ==
    \/ TickPaced(MaxTimePaced)
    \/ \E s \in Solo : StartStream(s, PacedConfigs)
    \/ \E s \in Solo : Register(s)
    \/ \E s \in Solo : StreamUpdate(s)
    \/ \E s \in Solo : HandlerReturn(s)
    \/ \E s \in Solo : BatchStart(s)
    \/ \E s \in Solo : BatchReceive(s)
    \/ \E s \in Solo : BatchProgress(s)
    \/ \E s \in Solo : BatchFinal(s)
    \/ \E s \in Solo : BatchClose(s)
    \/ \E s \in Solo : DispatchCheck(s)
    \/ \E s \in Solo : DispatchResult(s, StreamStatuses, StreamFailures)
    \/ \E s \in Solo : DispatchEnqueue(s)
    \/ \E s \in Solo : DispatchTimer(s)

SpecPaced == Init /\ [][NextPaced]_vars

(* One streaming session of two requests sent in a burst, without clock and *)
(* without a stop, for attack traffic and normal traffic, with and without  *)
(* the forced 404, with a custom header and a request body                  *)
FrameConfigs ==
    { [BaseConfig EXCEPT !.TotalRequests = 2, !.TestMode = "burst", !.TrafficType = tt,
                         !.ErrorMode = em, !.HTTPMethod = m,
                         !.CustomHeaders = [k \in {"User-Agent"} |-> "corp-monitor"],
                         !.RequestBody = "{\"a\": 1}"] :
        tt \in {"attack", "normal"}, em \in BOOLEAN, m \in {"GET", "POST"} }

NextFrame ==
    \/ \E s \in Solo : StartStream(s, FrameConfigs)
    \/ \E s \in Solo : Register(s)
    \/ \E s \in Solo : StreamUpdate(s)
    \/ \E s \in Solo : HandlerReturn(s)
    \/ \E s \in Solo : BatchStart(s)
    \/ \E s \in Solo : BatchReceive(s)
    \/ \E s \in Solo : BatchProgress(s)
    \/ \E s \in Solo : BatchFinal(s)
    \/ \E s \in Solo : BatchClose(s)
    \/ \E s \in Solo : DispatchCheck(s)
    \/ \E s \in Solo : DispatchResult(s, LiveStatuses, LiveFailures)
    \/ \E s \in Solo : DispatchEnqueue(s)
    \/ \E s \in Solo : DispatchTimer(s)

SpecFrame == Init /\ [][NextFrame]_vars

(* One non-streaming test: every count from 0 (rejected) to MaxRunRequests, *)
(* over one or two seconds, in baseline (the default) and burst mode, the   *)
(* target answering 200 or 429 or not at all                                *)
MaxRunRequests == 3
MaxTimeRun == 4

RunConfigs ==
    { [BaseConfig EXCEPT !.TotalRequests = n, !.Duration = d, !.TestMode = m] :
        n \in 0..MaxRunRequests, d \in {1, 2}, m \in {"", "burst"} }

NextRunTest ==
    \/ Tick(MaxTimeRun)
    \/ RunRejected(RunConfigs)
    \/ RunStart(RunConfigs)
    \/ RunSend
    \/ RunResult(StreamStatuses, StreamFailures)
    \/ RunSleepEnd
    \/ RunAfter
    \/ RunRemainingEnd
    \/ RunFinish

SpecRunTest == Init /\ [][NextRunTest]_vars

(* One POST, to /api/test/start or to /api/test/stream, never stopped, with *)
(* configurations at and beyond each limit of the validation and with each  *)
(* optional field empty, set to each accepted value and set to a value that *)
(* is not accepted                                                          *)
MaxTimeStart == 1

ValidationConfigs ==
    { [BaseConfig EXCEPT !.TotalRequests = n, !.Duration = d] :
        n \in {-1, 0, 1, MaxTotalRequests + 1}, d \in {-1, 0, 1, MaxDurationSeconds + 1} }
    \cup { [BaseConfig EXCEPT !.TotalRequests = n, !.Duration = MaxDurationSeconds] :
             n \in {1, MaxTotalRequests} }
    \cup { [BaseConfig EXCEPT !.TargetURL = ""],
           [BaseConfig EXCEPT !.HTTPMethod = "POST"] }
    \cup { [BaseConfig EXCEPT !.TrafficType = t] : t \in {"normal", "attack", "flood"} }
    \cup { [BaseConfig EXCEPT !.TestMode = m] : m \in {"baseline", "burst", "spike"} }
    \cup { [BaseConfig EXCEPT !.UserAgentType = u] : u \in {"legitimate", "scanner", "bot"} }

NextStart ==
    \/ Tick(MaxTimeStart)
    \/ hpc[1] = "idle" /\ RunRejected(ValidationConfigs)
    \/ hpc[1] = "idle" /\ RunStart(ValidationConfigs)
    \/ RunSend
    \/ RunResult(LiveStatuses, LiveFailures)
    \/ RunSleepEnd
    \/ RunAfter
    \/ RunRemainingEnd
    \/ RunFinish
    \/ \E s \in Solo : rpc = "idle" /\ StartRejected(s, ValidationConfigs)
    \/ \E s \in Solo : rpc = "idle" /\ StartStream(s, ValidationConfigs)
    \/ \E s \in Solo : Register(s)
    \/ \E s \in Solo : StreamUpdate(s)
    \/ \E s \in Solo : HandlerReturn(s)
    \/ \E s \in Solo : BatchStart(s)
    \/ \E s \in Solo : BatchReceive(s)
    \/ \E s \in Solo : BatchProgress(s)
    \/ \E s \in Solo : BatchFinal(s)
    \/ \E s \in Solo : BatchClose(s)
    \/ \E s \in Solo : DispatchCheck(s)
    \/ \E s \in Solo : DispatchResult(s, LiveStatuses, LiveFailures)
    \/ \E s \in Solo : DispatchEnqueue(s)
    \/ \E s \in Solo : DispatchTimer(s)

SpecStart == Init /\ [][NextStart]_vars

(* One streaming session of a burst larger than resultsChan, its requests   *)
(* answered at once: the interval is 0 and the whole run fits in one tick;  *)
(* the client stops the test, if it does, when resultsChan is full          *)
BackpressureConfigs ==
    { [BaseConfig EXCEPT !.TotalRequests = ResultsChanCap + 1, !.TestMode = "burst"] }

NextBackpressure ==
    \/ \E s \in Solo : StartStream(s, BackpressureConfigs)
    \/ \E s \in Solo : Register(s)
    \/ \E s \in Solo : StreamUpdate(s)
    \/ \E s \in Solo : HandlerReturn(s)
    \/ \E s \in Solo :
          Len(resultsChan[s]) = ResultsChanCap /\ handleStopTest(testID[s])
    \/ \E s \in Solo : BatchStart(s)
    \/ \E s \in Solo : BatchReceive(s)
    \/ \E s \in Solo : BatchCancelled(s)
    \/ \E s \in Solo : BatchProgress(s)
    \/ \E s \in Solo : BatchFinal(s)
    \/ \E s \in Solo : BatchClose(s)
    \/ \E s \in Solo : DispatchCheck(s)
    \/ \E s \in Solo : DispatchResult(s, LiveStatuses, LiveFailures)
    \/ \E s \in Solo : DispatchEnqueue(s)
    \/ \E s \in Solo : DispatchEnqueueCancelled(s)
    \/ \E s \in Solo : DispatchTimer(s)
    \/ \E s \in Solo : DispatchWaitCancelled(s)

SpecBackpressure == Init /\ [][NextBackpressure]_vars

(* sendRequest alone, for every accepted configuration and pool state       *)
InitExec ==
    /\ now = 0
    /\ AttackPayloads \in PoolStates
    /\ StreamIdle
    /\ xconfig \in ExecConfigs
    /\ xresult = NoResult
    /\ calcIn = CalcIdle
    /\ calcOut = NoOutput
    /\ RunIdle

NextExec == ExecSendRequest

SpecExec == InitExec /\ [][NextExec]_vars

(* The calculators alone, for every argument of CalcInputs                  *)
InitCalc ==
    /\ now = 0
    /\ calcIn \in CalcInputs
    /\ AttackPayloads \in (IF calcIn.fn = "attack" THEN PoolStates ELSE {LoadedPools})
    /\ StreamIdle
    /\ xconfig = NoConfig
    /\ xresult = NoResult
    /\ calcOut = NoOutput
    /\ RunIdle

NextCalc ==
    \/ CalcInterval
    \/ CalcPercentile
    \/ CalcResponseTimePercentiles
    \/ CalcStatistics
    \/ CalcBuildAttackRequest

SpecCalc == InitCalc /\ [][NextCalc]_vars

-----------------------------------------------------------------------------
(* Properties of a streaming session *)

Last(seq) == seq[Len(seq)]

IsTerminal(update) == update.Type \in {"complete", "cancelled"}

Terminals(s) == {i \in 1..Len(events[s]) : IsTerminal(events[s][i])}

Completes(s) == {i \in 1..Len(events[s]) : events[s][i].Type = "complete"}

Total(s) == sessConfig[s].TotalRequests

BlockedStatuses == {403, 406, 429}

BlockedAt(requests) == {i \in 1..Len(requests) : requests[i].Status \in BlockedStatuses}

Min(S) == CHOOSE x \in S : \A y \in S : x <= y

(* C1: when the context is cancelled before the batching goroutine has      *)
(* processed the Nth outcome, no "complete" update is sent, and the stream  *)
(* ends with exactly one terminal update, of type "cancelled", whose        *)
(* completed count is below N.                                              *)
C1_CancelledBeforeLastOutcome ==
    \A s \in Sessions :
        (bpc[s] # "none" /\ ctxDone[s] /\ completedCount[s] < Total(s)) =>
            /\ Completes(s) = {}
            /\ progressClosed[s] =>
                  /\ Cardinality(Terminals(s)) = 1
                  /\ Last(events[s]).Type = "cancelled"
                  /\ Last(events[s]).Completed < Total(s)

(* C2: every "complete" update carries a FinalResult whose TotalRequests is *)
(* N and whose Requests are N outcomes with IDs 1..N in order, and the      *)
(* update's Completed equals the length of that list.                       *)
C2_CompleteCarriesAllOutcomes ==
    \A s \in Sessions : \A i \in Completes(s) :
        LET update == events[s][i]
        IN  /\ Len(update.FinalResult) = 1
            /\ update.FinalResult[1].TotalRequests = Total(s)
            /\ Len(update.FinalResult[1].Requests) = Total(s)
            /\ \A k \in 1..Len(update.FinalResult[1].Requests) :
                  update.FinalResult[1].Requests[k].ID = k
            /\ update.Completed = Len(update.FinalResult[1].Requests)

C4_RateLimitDetected ==
    \A s \in Sessions : \A i \in Completes(s) :
        LET final == events[s][i].FinalResult[1]
            blocked == BlockedAt(final.Requests)
        IN  /\ final.RateLimitHit <=> blocked # {}
            /\ blocked # {} => final.RateLimitAt = final.Requests[Min(blocked)].ID

(* C6: in burst mode, when no stop was posted, the "complete" update is not *)
(* sent before Duration seconds have passed since startTime.                *)
C6_BurstRunsFullDuration ==
    \A s \in Sessions : \A i \in Completes(s) :
        (sessConfig[s].TestMode = "burst" /\ stopResponse = NoResponse) =>
            (events[s][i].Timestamp - startTime[s]) * TickMs
                >= sessConfig[s].Duration * 1000

(* the outcomes produced and enqueued so far, in the order of production    *)
Outcomes(s) == allRequests[s] \o resultsChan[s]

(* C11: a session has at most one request in flight: request i is issued    *)
(* only when the outcomes 1..i-1, and no others, have been produced and     *)
(* enqueued on resultsChan; at most one outcome waits to be enqueued; and   *)
(* outcomes are enqueued and consumed in the order of their IDs.            *)
C11_OneRequestInFlight ==
    \A s \in Sessions :
        /\ \A k \in 1..Len(Outcomes(s)) : Outcomes(s)[k].ID = k
        /\ dpc[s] \in {"inflight", "enqueue"} => Len(Outcomes(s)) = di[s] - 1
        /\ dpc[s] = "enqueue" => (Len(dresult[s]) = 1 /\ dresult[s][1].ID = di[s])
        /\ dpc[s] \notin {"enqueue", "done"} => dresult[s] = <<>>
        /\ dpc[s] = "wait" => Len(Outcomes(s)) = di[s]

(* request 2 is in flight while outcome 1 still waits in resultsChan        *)
C11_Witness ==
    /\ dpc[1] = "inflight"
    /\ di[1] = 2
    /\ Len(resultsChan[1]) = 1

(* sendRequest(di, config) is called                                        *)
Attempt(s) == dpc[s] = "check" /\ dpc'[s] = "inflight"

(* C12: every request is attempted with a sequence number one above the     *)
(* outcomes produced so far, so no number is attempted twice; and when the  *)
(* dispatcher has returned with the context not cancelled, the outcomes are *)
(* those of 1..N, whatever errors or blocked statuses occurred.             *)
C12_EachNumberOnce ==
    /\ [](\A s \in Sessions :
            (dpc[s] = "done" /\ ~ctxDone[s]) =>
                /\ Len(Outcomes(s)) = Total(s)
                /\ \A k \in 1..Total(s) : Outcomes(s)[k].ID = k)
    /\ [][\A s \in Sessions :
            /\ Attempt(s) => (di[s] = Len(Outcomes(s)) + 1 /\ di[s] \in 1..Total(s))
            /\ di'[s] >= di[s]]_vars

(* a session that ran to its end although its first request failed and     *)
(* its second was blocked                                                   *)
C12_Witness ==
    /\ hpc[1] = "returned"
    /\ stopResponse = NoResponse
    /\ Len(allRequests[1]) = 2
    /\ allRequests[1][1].Error # ""
    /\ allRequests[1][2].WasBlocked

RECURSIVE LatencySum(_, _)
LatencySum(requests, k) ==
    IF k = 0 THEN 0 ELSE requests[k].ResponseTime + LatencySum(requests, k - 1)

RECURSIVE Reported(_, _)
Reported(updates, i) ==
    IF i = 0 THEN <<>> ELSE Reported(updates, i - 1) \o updates[i].NewRequests

(* C13: every "progress" update after the first carries statistics over all *)
(* the outcomes processed so far: Completed is their number (the batches    *)
(* sent so far together), SuccessCount the number with status 200..299,     *)
(* ErrorCount the number with status >= 400 or an Error, BlockedCount the   *)
(* number marked blocked, AvgResponse their summed latency divided by their *)
(* number, rounded down.                                                    *)
C13_RunningStatistics ==
    \A s \in Sessions : \A i \in 2..Len(events[s]) :
        events[s][i].Type = "progress" =>
            LET update == events[s][i]
                k == update.Completed
                stats == update.CurrentStats[1]
            IN  /\ k \in 1..Len(allRequests[s])
                /\ Reported(events[s], i) = SubSeq(allRequests[s], 1, k)
                /\ Len(update.CurrentStats) = 1
                /\ stats.SuccessCount = Cardinality({j \in 1..k :
                      allRequests[s][j].Status \in 200..299})
                /\ stats.ErrorCount = Cardinality({j \in 1..k :
                      allRequests[s][j].Status >= 400 \/ allRequests[s][j].Error # ""})
                /\ stats.BlockedCount = Cardinality({j \in 1..k :
                      allRequests[s][j].WasBlocked})
                /\ stats.AvgResponse = LatencySum(allRequests[s], k) \div k

(* a second batch of one outcome whose statistics count both outcomes       *)
C13_Witness ==
    \E i \in 2..Len(events[1]) :
        /\ events[1][i].Type = "progress"
        /\ events[1][i].Completed = 2
        /\ Len(events[1][i].NewRequests) = 1
        /\ events[1][i].CurrentStats[1].ErrorCount = 1
        /\ events[1][i].CurrentStats[1].SuccessCount = 1
        /\ events[1][i].CurrentStats[1].AvgResponse = 500

(* the batching goroutine runs the rest of its loop body, not cancelled     *)
BatchCheck(s) == bpc[s] = "select" /\ bpc'[s] # "select" /\ ~ctxDone[s]

(* C14: when the loop body runs in a session that is not cancelled, a       *)
(* "progress" update with the current batch is sent, and the batch emptied, *)
(* exactly if a second or more has passed since the last one or the Nth     *)
(* outcome was just processed; otherwise nothing is sent and the batch      *)
(* kept. Every processed outcome is in one batch, sent or current, and a    *)
(* session that completed all N has no outcome left unsent.                 *)
C14_BatchEmission ==
    /\ [](\A s \in Sessions :
            /\ Reported(events[s], Len(events[s])) \o batchRequests[s] = allRequests[s]
            /\ (Completes(s) # {} /\ completedCount[s] >= Total(s)) =>
                  batchRequests[s] = <<>>)
    /\ [][\A s \in Sessions : BatchCheck(s) =>
            IF (now - lastSendTime[s]) * TickMs >= 1000 \/ completedCount[s] >= Total(s)
            THEN /\ Len(events'[s]) = Len(events[s]) + 1
                 /\ Last(events'[s]).Type = "progress"
                 /\ Last(events'[s]).NewRequests = batchRequests[s]
                 /\ Len(batchRequests[s]) >= 1
                 /\ batchRequests'[s] = <<>>
                 /\ lastSendTime'[s] = now
            ELSE /\ events'[s] = events[s]
                 /\ batchRequests'[s] = batchRequests[s]
                 /\ lastSendTime'[s] = lastSendTime[s]]_vars

(* an outcome was held back, and sent with the next one in a batch of two   *)
C14_Witness ==
    \E i \in 2..Len(events[1]) :
        /\ events[1][i].Type = "progress"
        /\ Len(events[1][i].NewRequests) = 2

(* C15: once the context is cancelled sendRequestsConcurrently calls        *)
(* sendRequest no more (a request in flight at that moment finishes): from  *)
(* its wait and from its enqueue it goes on only to return, also when the   *)
(* timer or the channel is ready together with the cancellation.            *)
C15_NoRequestAfterCancel ==
    [][\A s \in Sessions : ctxDone[s] =>
            /\ ~(dpc[s] # "inflight" /\ dpc'[s] = "inflight")
            /\ (dpc[s] \in {"wait", "enqueue", "check"} /\ dpc'[s] # dpc[s]) =>
                  dpc'[s] \in {"done", "check", "wait"}
            /\ (dpc[s] = "check" /\ dpc'[s] # dpc[s]) =>
                  (dpc'[s] = "done" /\ resultsClosed'[s])]_vars

(* interval 0 and cancelled: the select of the wait took the timer, and the *)
(* dispatcher stands before its check with request 2 not sent               *)
C15_Witness ==
    /\ ctxDone[1]
    /\ hpc[1] = "stream"
    /\ dpc[1] = "check"
    /\ di[1] = 2
    /\ calculateInterval(sessConfig[1]) = 0

(* the session has ended: a terminal update was sent, progressChan closed,  *)
(* the handler returned and the registry holds no entry for the identifier  *)
Finished(s) ==
    /\ Terminals(s) # {}
    /\ progressClosed[s]
    /\ hpc[s] = "returned"
    /\ testID[s] \notin DOMAIN activeSessions

(* C16: under fair scheduling of the dispatcher, the batching goroutine and *)
(* the handler, with every request returning, a started streaming session   *)
(* in the end has sent a terminal update, closed its stream and left the    *)
(* registry, cancelled or not, whenever the cancellation comes.             *)
C16_SessionTerminates ==
    \A s \in Sessions : (testID[s] # None) ~> Finished(s)

(* a session cancelled while its outcome waited to be enqueued has ended    *)
C16_Witness ==
    /\ Finished(1)
    /\ dresult[1] # <<>>
    /\ ctxDone[1]
    /\ Len(allRequests[1]) = 1

(* the ticks at which the requests issued so far were dispatched            *)
Dispatched(s) ==
    [k \in 1..Len(Outcomes(s)) |-> Outcomes(s)[k].Timestamp]
        \o (IF dpc[s] \in {"inflight", "enqueue"} THEN <<dstart[s]>> ELSE <<>>)

(* C17: in baseline mode, with the dispatcher scheduled without delay, two  *)
(* consecutive requests are dispatched Duration*1000/N ms apart however     *)
(* long the first of them takes, and the last request is dispatched within  *)
(* Duration seconds of the first.                                           *)
C17_BaselineSpacing ==
    \A s \in Sessions :
        (bpc[s] # "none" /\ sessConfig[s].TestMode = "baseline"
            /\ (sessConfig[s].Duration * 1000) % (Total(s) * TickMs) = 0) =>
            /\ \A k \in 1..(Len(Dispatched(s)) - 1) :
                  (Dispatched(s)[k + 1] - Dispatched(s)[k]) * TickMs
                      = (sessConfig[s].Duration * 1000) \div Total(s)
            /\ Len(Dispatched(s)) >= 1 =>
                  (Last(Dispatched(s)) - Dispatched(s)[1]) * TickMs
                      <= sessConfig[s].Duration * 1000

(* the dispatcher holds an outcome and resultsChan has no room for it       *)
BlockedOnEnqueue(s) == dpc[s] = "enqueue" /\ Len(resultsChan[s]) = ResultsChanCap

(* C31: resultsChan never holds more than 100 outcomes and hands them to    *)
(* the batching goroutine in the order they were enqueued; while it is full *)
(* the dispatcher keeps its outcome and issues no request, and nothing is   *)
(* dropped or reordered; and a dispatcher blocked on the full channel can   *)
(* return at once when the context is cancelled, without any dequeue.       *)
C31_BoundedOrderedChannel ==
    /\ [](\A s \in Sessions :
            /\ Len(resultsChan[s]) <= 100
            /\ \A k \in 1..Len(Outcomes(s)) : Outcomes(s)[k].ID = k
            /\ (BlockedOnEnqueue(s) /\ ctxDone[s]) => ENABLED DispatchEnqueueCancelled(s))
    /\ [][\A s \in Sessions :
            /\ resultsChan'[s] # resultsChan[s] =>
                  \/ /\ Len(dresult[s]) = 1
                     /\ resultsChan'[s] = Append(resultsChan[s], dresult[s][1])
                     /\ allRequests'[s] = allRequests[s]
                  \/ /\ Len(resultsChan[s]) > 0
                     /\ resultsChan'[s] = Tail(resultsChan[s])
                     /\ allRequests'[s] = Append(allRequests[s], Head(resultsChan[s]))
            /\ BlockedOnEnqueue(s) =>
                  /\ dresult'[s] = dresult[s]
                  /\ di'[s] = di[s]
                  /\ dpc'[s] \in {"enqueue", "done"}
                  /\ dpc'[s] = "done" => (ctxDone[s] /\ resultsChan'[s] = resultsChan[s])
          ]_vars

(* the dispatcher returned on the cancellation while it held outcome 101    *)
(* and the channel held 100 outcomes, none of them dequeued                 *)
C31_Witness ==
    /\ dpc[1] = "done"
    /\ resultsClosed[1]
    /\ ctxDone[1]
    /\ Len(resultsChan[1]) = ResultsChanCap
    /\ allRequests[1] = <<>>
    /\ dresult[1] # <<>>
    /\ dresult[1][1].ID = ResultsChanCap + 1

(* the session has its identifier and the handler has not yet called        *)
(* registerSession                                                          *)
NotYetRegistered(s) == hpc[s] = "register" /\ testID[s] \notin DOMAIN activeSessions

(* C28: a streaming session starts in this order: the identifier is         *)
(* generated, the session is registered, the initial update (progress,      *)
(* Completed 0, Percentage 0) is sent, and then the batching goroutine and  *)
(* the dispatcher are launched; so while the session is not yet in the      *)
(* registry no update has been sent and no request has been issued.         *)
C28_RegisteredFirst ==
    \A s \in Sessions :
        /\ NotYetRegistered(s) =>
              /\ events[s] = <<>>
              /\ bpc[s] \in {"none", "start"}
              /\ dpc[s] = "none"
              /\ Len(Dispatched(s)) = 0
        /\ (bpc[s] \notin {"none", "start"} /\ events[s] # <<>>) =>
              /\ events[s][1].Type = "progress"
              /\ events[s][1].Completed = 0
              /\ events[s][1].Percentage = 0

-----------------------------------------------------------------------------
(* Properties of the non-streaming test *)

(* the sequence numbers of the blocked outcomes RunTest has appended        *)
BlockedNumbers == {k \in 1..Len(rresult.Requests) : rresult.Requests[k].WasBlocked}

(* C26: RunTest sets RateLimitHit when it appends the first blocked outcome *)
(* and RateLimitAt to that outcome's sequence number; once set, no later    *)
(* outcome, blocked or not, and no later step of the run changes either.    *)
C26_RateLimitSticky ==
    /\ [](/\ rresult.RateLimitHit <=> BlockedNumbers # {}
          /\ \A k \in 1..Len(rresult.Requests) : rresult.Requests[k].ID = k
          /\ IF BlockedNumbers = {} THEN rresult.RateLimitAt = 0
             ELSE /\ rresult.RateLimitAt \in BlockedNumbers
                  /\ \A k \in BlockedNumbers : rresult.RateLimitAt <= k)
    /\ [][rresult.RateLimitHit =>
              /\ rresult'.RateLimitHit
              /\ rresult'.RateLimitAt = rresult.RateLimitAt]_vars

(* three outcomes, the second and the third blocked: RateLimitAt stays 2    *)
C26_Witness ==
    /\ rpc = "returned"
    /\ Len(rresult.Requests) = 3
    /\ BlockedNumbers = {2, 3}
    /\ rresult.RateLimitHit
    /\ rresult.RateLimitAt = 2

(* C27: in burst mode RunTest, after its last request, sleeps for what is   *)
(* left of Duration since testStartTime when something is left, so that it  *)
(* does not return before Duration seconds have passed; in baseline mode it *)
(* does not sleep after the last request.                                   *)
C27_BurstTrailingSleep ==
    /\ []((rpc = "returned" /\ rconfig.TestMode = "burst") =>
            (rresult.EndTime - testStartTime) * TickMs >= rconfig.Duration * 1000)
    /\ [](rpc = "remaining" => rconfig.TestMode = "burst")
    /\ [][/\ (rpc = "after" /\ rpc' # "after") =>
               (rpc' = "remaining" <=>
                   (rconfig.TestMode = "burst"
                       /\ (now - testStartTime) * TickMs < rconfig.Duration * 1000))
          /\ (rpc = "remaining" /\ rpc' # "remaining") =>
               (now - testStartTime) * TickMs >= rconfig.Duration * 1000]_vars

(* a burst of two requests over two seconds: the second request is sent     *)
(* after one second, the result returned after two                          *)
C27_Witness ==
    /\ rpc = "returned"
    /\ rconfig.TestMode = "burst"
    /\ rconfig.Duration = 2
    /\ Len(rresult.Requests) = 2
    /\ rresult.Requests[2].Timestamp = testStartTime + 1
    /\ rsince = testStartTime + 1
    /\ rresult.EndTime = testStartTime + 2

-----------------------------------------------------------------------------
(* Properties of the two start handlers *)

(* the configurations the validation contract accepts                       *)
Acceptable(config) ==
    /\ config.TargetURL # ""
    /\ config.TotalRequests \in 1..10000
    /\ config.Duration \in 1..3600
    /\ config.TrafficType \in {"", "normal", "attack"}
    /\ config.TestMode \in {"", "baseline", "burst"}
    /\ config.UserAgentType \in {"", "legitimate", "scanner"}

(* a configuration with its empty optional fields replaced                  *)
Defaulted(config) ==
    [config EXCEPT !.TrafficType = IF @ = "" THEN "normal" ELSE @,
                   !.TestMode = IF @ = "" THEN "baseline" ELSE @,
                   !.HTTPMethod = IF @ = "" THEN "GET" ELSE @]

(* nothing of a streaming session / of a non-streaming test exists          *)
NothingStreamed(s) ==
    /\ testID[s] = None
    /\ events[s] = <<>>
    /\ bpc[s] = "none"
    /\ dpc[s] = "none"
    /\ Len(Dispatched(s)) = 0
    /\ \A id \in DOMAIN activeSessions : activeSessions[id] # s

NothingRun ==
    /\ rresult = ZeroResult
    /\ ri = 0

(* C24: a test, streaming or not, is started only with a non-empty target   *)
(* URL, 1 <= TotalRequests <= 10000, 1 <= Duration <= 3600 and TrafficType, *)
(* TestMode and UserAgentType empty or one of their accepted values; every  *)
(* other configuration is rejected by the handler with no request issued,   *)
(* no update sent and no session registered, then or later; and a started   *)
(* test runs with empty TrafficType, TestMode and method replaced by        *)
(* normal, baseline and GET.                                                *)
C24_ValidatedBeforeStart ==
    /\ [](\A s \in Sessions :
            /\ hpc[s] = "rejected" => (~Acceptable(sessConfig[s]) /\ NothingStreamed(s))
            /\ hpc[s] = "idle" => NothingStreamed(s)
            /\ hpc[s] \notin {"idle", "rejected"} =>
                  /\ Acceptable(sessConfig[s])
                  /\ sessConfig[s] = Defaulted(sessConfig[s]))
    /\ [](/\ rpc = "rejected" => (~Acceptable(rconfig) /\ NothingRun)
          /\ rpc = "idle" => NothingRun
          /\ rpc \notin {"idle", "rejected"} =>
                (Acceptable(rconfig) /\ rconfig = Defaulted(rconfig)))
    /\ [][/\ \A s \in Sessions :
               (hpc[s] = "idle" /\ hpc'[s] # "idle") =>
                   \E raw \in ValidationConfigs :
                       IF Acceptable(raw)
                       THEN hpc'[s] = "register" /\ sessConfig'[s] = Defaulted(raw)
                       ELSE hpc'[s] = "rejected" /\ sessConfig'[s] = raw
          /\ (rpc = "idle" /\ rpc' # "idle") =>
                   \E raw \in ValidationConfigs :
                       IF Acceptable(raw)
                       THEN rpc' = "send" /\ rconfig' = Defaulted(raw)
                       ELSE rpc' = "rejected" /\ rconfig' = raw
          /\ \A s \in Sessions : hpc[s] = "rejected" => hpc'[s] = "rejected"
          /\ rpc = "rejected" => rpc' = "rejected"]_vars

(* 10000 requests over 3600 seconds are accepted and streamed with the      *)
(* defaults set                                                             *)
C24_Witness ==
    /\ hpc[1] = "stream"
    /\ sessConfig[1].TotalRequests = 10000
    /\ sessConfig[1].Duration = 3600
    /\ sessConfig[1].TrafficType = "normal"
    /\ sessConfig[1].TestMode = "baseline"
    /\ sessConfig[1].HTTPMethod = "GET"
    /\ Len(Dispatched(1)) = 2

-----------------------------------------------------------------------------
(* Properties of the registry *)

Started(s) == testID[s] # None

(* C7: two sessions never have the same identifier.                         *)
C7_DistinctIdentifiers ==
    \A s, t \in Sessions :
        (Started(s) /\ Started(t) /\ s # t) => testID[s] # testID[t]

(* C8: handleStopTest(id) cancels every session streaming under id, leaves  *)
(* the context of every other session as it was, and answers notFound,      *)
(* cancelling nothing, when the registry has no entry for id; no step of    *)
(* one session changes the context, updates or outcomes of another.         *)
C8_StopCancelsThatSession ==
    [][ /\ \A id \in StopIDs : handleStopTest(id) =>
              /\ \A s \in Sessions :
                    (hpc[s] = "stream" /\ testID[s] = id) => ctxDone'[s]
              /\ \A s \in Sessions : testID[s] # id => ctxDone'[s] = ctxDone[s]
              /\ id \notin DOMAIN activeSessions =>
                    /\ ctxDone' = ctxDone
                    /\ stopResponse'.status = "notFound"
        /\ \A s \in Sessions :
              (HandlerReturn(s) \/ BatchFinal(s) \/ BatchCancelled(s)) =>
                  \A t \in Sessions \ {s} :
                      /\ ctxDone'[t] = ctxDone[t]
                      /\ events'[t] = events[t]
                      /\ allRequests'[t] = allRequests[t]
      ]_vars

(* C9: while a handler streams (from registerSession to its return) the     *)
(* registry maps its identifier to its own session; after its return the    *)
(* registry has no entry for its identifier.                                *)
C9_RegisteredWhileStreaming ==
    \A s \in Sessions :
        /\ hpc[s] = "stream" =>
              /\ testID[s] \in DOMAIN activeSessions
              /\ activeSessions[testID[s]] = s
        /\ hpc[s] = "returned" => testID[s] \notin DOMAIN activeSessions

-----------------------------------------------------------------------------
(* Properties of the request executor *)

ScannerAgents(pools) ==
    {pools.ScannerUserAgents[i] : i \in 1..Len(pools.ScannerUserAgents)}
        \cup {FallbackScannerAgents[i] : i \in 1..Len(FallbackScannerAgents)}

(* C5: a request sent in attack mode carries, and its outcome records, a    *)
(* scanner User-Agent, whatever UserAgentType and CustomUserAgent are.      *)
C5_AttackUsesScannerAgent ==
    (xresult # NoResult /\ xconfig.TrafficType = "attack"
        /\ "User-Agent" \in DOMAIN xresult[1].RequestHeaders) =>
            xresult[1].RequestHeaders["User-Agent"] \in ScannerAgents(AttackPayloads)

LegitimateAgents(pools) ==
    {pools.LegitimateUserAgents[i] : i \in 1..Len(pools.LegitimateUserAgents)}
        \cup {FallbackLegitimateAgent}

(* sendRequest got as far as setting the User-Agent SelectUserAgent returned *)
AgentSelected ==
    /\ xresult # NoResult
    /\ "User-Agent" \in DOMAIN xresult[1].RequestHeaders

(* C23: SelectUserAgent returns the custom user agent when it is not empty; *)
(* otherwise a scanner agent for type scanner and a legitimate one for type *)
(* legitimate; otherwise a scanner agent for attack traffic and a           *)
(* legitimate one for normal traffic; and never the empty string, the       *)
(* built-in agents standing in for an empty pool.                           *)
C23_UserAgentPriority ==
    AgentSelected =>
        LET agent == xresult[1].RequestHeaders["User-Agent"]
            scanner == agent \in ScannerAgents(AttackPayloads)
                          /\ agent \notin LegitimateAgents(AttackPayloads)
            legitimate == agent \in LegitimateAgents(AttackPayloads)
                             /\ agent \notin ScannerAgents(AttackPayloads)
        IN  /\ agent # ""
            /\ IF xconfig.CustomUserAgent # "" THEN agent = xconfig.CustomUserAgent
               ELSE IF xconfig.UserAgentType = "scanner" THEN scanner
               ELSE IF xconfig.UserAgentType = "legitimate" THEN legitimate
               ELSE IF xconfig.TrafficType = "attack" THEN scanner
               ELSE legitimate
            /\ (xconfig.CustomUserAgent = "" /\ Len(AttackPayloads.ScannerUserAgents) = 0
                    /\ scanner) =>
                  \E i \in 1..Len(FallbackScannerAgents) : agent = FallbackScannerAgents[i]

(* no pool loaded, attack traffic without agent settings: a built-in        *)
(* scanner agent is sent                                                    *)
C23_Witness ==
    /\ AgentSelected
    /\ AttackPayloads = EmptyPools
    /\ xconfig.CustomUserAgent = ""
    /\ xconfig.UserAgentType = ""
    /\ xconfig.TrafficType = "attack"
    /\ xresult[1].RequestHeaders["User-Agent"] = "Nikto/2.1.6"

Forced404 == xresult # NoResult /\ Contains(xresult[1].URL, "/nonexistent-path-")
AttackInjected ==
    /\ xresult # NoResult
    /\ \/ xresult[1].AttackInfo # ""
       \/ Contains(xresult[1].URL, "id=")
       \/ Contains(xresult[1].RequestBody, "\"attack\"")
       \/ Contains(xresult[1].RequestBody, "\"search\"")

(* C30: sendRequest never applies both the 404 path and the attack          *)
(* injection to a request: the 404 path is appended only for normal traffic *)
(* with ErrorMode, the injection is applied only for attack traffic, and a  *)
(* request of attack traffic with ErrorMode goes to a URL without the       *)
(* nonexistent path.                                                        *)
C30_ForcedOrInjected ==
    /\ ~(Forced404 /\ AttackInjected)
    /\ Forced404 => (xconfig.TrafficType = "normal" /\ xconfig.ErrorMode)
    /\ AttackInjected => xconfig.TrafficType = "attack"
    /\ (xresult # NoResult /\ xconfig.TrafficType = "attack" /\ xconfig.ErrorMode) =>
          ~Forced404

(* attack traffic with ErrorMode set: the payload is injected, no 404 path  *)
C30_Witness ==
    /\ AttackInjected
    /\ xconfig.ErrorMode
    /\ xconfig.TrafficType = "attack"
    /\ xresult[1].URL = "http://x/?id=1' OR '1'='1&search=1' OR '1'='1"

(* C10: an outcome with a non-empty Error has Status 0 and is not marked    *)
(* blocked.                                                                 *)
C10_ErrorMeansStatusZero ==
    (xresult # NoResult /\ xresult[1].Error # "") =>
        (xresult[1].Status = 0 /\ ~xresult[1].WasBlocked)

-----------------------------------------------------------------------------
(* Properties of the calculators *)

Returned(fn) == calcIn.fn = fn /\ calcOut # NoOutput

(* C18: for every accepted count N and duration D the delay between        *)
(* requests is D*1000/N ms in baseline mode and (D/2)*1000/N ms in burst    *)
(* mode (integer divisions); calculateInterval and the computation inside   *)
(* RunTest agree; twice the burst delay is at most the baseline delay; and  *)
(* a configuration whose delay is 0 is accepted without error.              *)
C18_IntervalFormula ==
    Returned("interval") =>
        LET N == calcIn.config.TotalRequests
            D == calcIn.config.Duration
            baseline == (D * 1000) \div N
            burst == ((D \div 2) * 1000) \div N
        IN  /\ calcOut[1].error = ""
            /\ calcOut[1].interval =
                  IF calcIn.config.TestMode = "burst" THEN burst ELSE baseline
            /\ calcOut[1].runTest = calcOut[1].interval
            /\ 2 * burst <= baseline
            /\ calcOut[1].interval >= 0

(* a burst of 10000 requests in one second: the delay is 0 and accepted     *)
C18_Witness ==
    /\ Returned("interval")
    /\ calcIn.config.TotalRequests = MaxTotalRequests
    /\ calcIn.config.TestMode = "burst"
    /\ calcOut[1].interval = 0
    /\ calcOut[1].error = ""

(* C19: calculatePercentile of a non-empty ascending list of n values and   *)
(* p in 0..100 returns the element at index round(p/100 * (n-1)), halves    *)
(* rounded up, an index within 0..n-1; of an empty list it returns 0; of    *)
(* the values 1..100 with p = 95 it returns 95, the element at index 94.    *)
C19_PercentileNearestRank ==
    Returned("percentile") =>
        LET n == Len(calcIn.values)
            index == (2 * calcIn.percentile * (n - 1) + 100) \div 200
        IN  /\ n = 0 => calcOut[1].value = 0
            /\ n > 0 => /\ index \in 0..(n - 1)
                        /\ calcOut[1].value = calcIn.values[index + 1]
            /\ (calcIn.values = Ascending(100) /\ calcIn.percentile = 95) =>
                  calcOut[1].value = 95

(* C20: for every list of response times, in any order, p50 <= p95 <= p99;  *)
(* calculatePercentile of the sorted list at 100 is the largest element;    *)
(* and the list passed in is left as it was.                                *)
C20_PercentilesMonotone ==
    /\ [](Returned("percentiles") =>
            /\ calcOut[1].p50 <= calcOut[1].p95
            /\ calcOut[1].p95 <= calcOut[1].p99
            /\ Len(calcIn.values) > 0 =>
                  /\ \E i \in 1..Len(calcIn.values) : calcIn.values[i] = calcOut[1].p100
                  /\ \A i \in 1..Len(calcIn.values) : calcIn.values[i] <= calcOut[1].p100)
    /\ [][CalcResponseTimePercentiles => calcIn' = calcIn]_vars

(* an unsorted list with zeros whose three percentiles differ               *)
C20_Witness ==
    /\ Returned("percentiles")
    /\ calcIn.values = Descending(MaxDescending)
    /\ calcOut[1].p50 < calcOut[1].p95
    /\ calcOut[1].p95 < calcOut[1].p99

(* the response times given to calculateStatistics, as a set of indices     *)
Positive(values) == {i \in 1..Len(values) : values[i] > 0}

RECURSIVE SumTo(_, _)
SumTo(values, k) == IF k = 0 THEN 0 ELSE values[k] + SumTo(values, k - 1)

(* C21: for every list of outcomes calculateStatistics reports as average   *)
(* the sum of all response times divided by the number of outcomes, rounded *)
(* down (0 for no outcome), as maximum the largest response time of all     *)
(* outcomes, and as minimum the smallest response time above 0, or 0 when   *)
(* no outcome has one; the 0 ms of a request that was never sent is not the *)
(* minimum while some outcome has a positive response time.                 *)
C21_AverageMinMax ==
    Returned("statistics") =>
        LET values == calcIn.values
            n == Len(values)
            out == calcOut[1]
        IN  /\ out.AvgResponse = IF n = 0 THEN 0 ELSE SumTo(values, n) \div n
            /\ \A i \in 1..n : values[i] <= out.MaxResponse
            /\ IF n = 0 THEN out.MaxResponse = 0
               ELSE \E i \in 1..n : values[i] = out.MaxResponse
            /\ \A i \in 1..n : out.Requests[i].ResponseTime = values[i]
            /\ IF Positive(values) = {} THEN out.MinResponse = 0
               ELSE /\ out.MinResponse > 0
                    /\ \E i \in Positive(values) : values[i] = out.MinResponse
                    /\ \A i \in Positive(values) : out.MinResponse <= values[i]

(* a request never sent (0 ms) among answered ones: the minimum is 1 ms     *)
C21_Witness ==
    /\ Returned("statistics")
    /\ calcIn.values = <<3, 0, 1>>
    /\ calcIn.failure = "create"
    /\ calcOut[1].Requests[2].Error # ""
    /\ calcOut[1].MinResponse = 1
    /\ calcOut[1].MaxResponse = 3
    /\ calcOut[1].AvgResponse = 1

(* BuildAttackRequest returned for a method it treats as GET / as not GET,  *)
(* having drawn a payload                                                   *)
InjectedInQuery ==
    /\ Returned("attack")
    /\ calcIn.config.HTTPMethod \in {"GET", ""}
    /\ calcOut[1].payload # ""

InjectedInBody ==
    /\ Returned("attack")
    /\ calcIn.config.HTTPMethod \notin {"GET", ""}
    /\ calcOut[1].payload # ""

(* C22: for a GET or empty method and a non-empty payload P the URL         *)
(* returned is the target URL, then "?" when the target URL holds no "?"    *)
(* and "&" when it holds one, then id=P&search=P; http://x/y becomes        *)
(* http://x/y?id=P&search=P and http://x/y?a=1 becomes                      *)
(* http://x/y?a=1&id=P&search=P; the body is returned as configured.        *)
C22_GetInjection ==
    InjectedInQuery =>
        LET url == calcIn.config.TargetURL
            P == calcOut[1].payload
            query == "id=" \o P \o "&search=" \o P
            hasQuery == \E i \in 1..Len(url) : SubSeq(url, i, i) = "?"
        IN  /\ calcOut[1].built.url = url \o (IF hasQuery THEN "&" ELSE "?") \o query
            /\ url = "http://x/y" => calcOut[1].built.url = "http://x/y?" \o query
            /\ url = "http://x/y?a=1" => calcOut[1].built.url = "http://x/y?a=1&" \o query
            /\ calcOut[1].built.body = calcIn.config.RequestBody

(* an empty method, a URL with a query and a configured body                *)
C22_Witness ==
    /\ InjectedInQuery
    /\ calcIn.config.HTTPMethod = ""
    /\ calcIn.config.TargetURL = "http://x/y?a=1"
    /\ calcIn.config.RequestBody # ""
    /\ calcOut[1].built.url = "http://x/y?a=1&id=../../etc/passwd&search=../../etc/passwd"

(* C29: for a method other than GET and "" and a non-empty payload P the    *)
(* URL is returned unchanged; an empty configured body becomes              *)
(* {"id": "P", "search": "P"}; a configured body B becomes B without one    *)
(* closing brace at its end, if it has one, followed by , "attack": "P"};   *)
(* and with no payload available the URL and body are returned as           *)
(* configured with the attack info "No payloads available".                 *)
C29_BodyInjection ==
    /\ InjectedInBody =>
          LET B == calcIn.config.RequestBody
              P == calcOut[1].payload
              trimmed == IF Len(B) > 0 /\ SubSeq(B, Len(B), Len(B)) = "}"
                         THEN SubSeq(B, 1, Len(B) - 1) ELSE B
          IN  /\ calcOut[1].built.url = calcIn.config.TargetURL
              /\ B = "" => calcOut[1].built.body =
                              "{\"id\": \"" \o P \o "\", \"search\": \"" \o P \o "\"}"
              /\ B # "" => calcOut[1].built.body =
                              trimmed \o ", \"attack\": \"" \o P \o "\"}"
    /\ (Returned("attack") /\ calcOut[1].payload = "") =>
          /\ calcOut[1].built.url = calcIn.config.TargetURL
          /\ calcOut[1].built.body = calcIn.config.RequestBody
          /\ calcOut[1].built.attackInfo = "No payloads available"

(* a body ending in two closing braces loses one of them                    *)
C29_Witness ==
    /\ InjectedInBody
    /\ calcIn.config.HTTPMethod = "DELETE"
    /\ calcIn.config.RequestBody = "{\"a\": {}}"
    /\ calcOut[1].built.body = "{\"a\": {}, \"attack\": \"; cat /etc/passwd\"}"

(* C32: in a session whose stream ends with a "complete" update the batches *)
(* of its "progress" updates, concatenated in the order of emission, are    *)
(* the outcome list of the FinalResult (every outcome of the FinalResult    *)
(* was delivered in exactly one batch), and every "progress" update after   *)
(* the first carries a non-empty batch.                                     *)
C32_BatchesMakeFinalResult ==
    \A s \in Sessions : \A c \in Completes(s) :
        /\ Len(events[s][c].FinalResult) = 1
        /\ Reported(events[s], c) = events[s][c].FinalResult[1].Requests
        /\ \A i \in 2..c :
              events[s][i].Type = "progress" => Len(events[s][i].NewRequests) >= 1

(* the counts of a statistics record are consistent for n outcomes          *)
CountsOrdered(stats, n) ==
    /\ stats.BlockedCount <= stats.ErrorCount
    /\ stats.ErrorCount <= n
    /\ stats.SuccessCount <= n

(* C33: in the running statistics of every "progress" update and in the     *)
(* FinalResult of every "complete" update BlockedCount <= ErrorCount <= the *)
(* number of outcomes and SuccessCount <= the number of outcomes: a blocked *)
(* outcome is counted as an error too.                                      *)
C33_BlockedWithinErrors ==
    \A s \in Sessions : \A i \in 1..Len(events[s]) :
        LET update == events[s][i]
        IN  /\ Len(update.CurrentStats) = 1 =>
                  CountsOrdered(update.CurrentStats[1], update.Completed)
            /\ Len(update.FinalResult) = 1 =>
                  CountsOrdered(update.FinalResult[1], Len(update.FinalResult[1].Requests))

(* a FinalResult over a blocked outcome and a failed one: one blocked, two  *)
(* errors                                                                   *)
C33_Witness ==
    \E c \in Completes(1) :
        /\ events[1][c].FinalResult[1].BlockedCount = 1
        /\ events[1][c].FinalResult[1].ErrorCount = 2
        /\ \E i \in 2..c : /\ Len(events[1][i].CurrentStats) = 1
                           /\ events[1][i].CurrentStats[1].BlockedCount = 1
                           /\ events[1][i].CurrentStats[1].ErrorCount = 1

(* C34: no outcome of sendRequest is counted as a success and as an error:  *)
(* in the running statistics and in the final statistics over any list of   *)
(* outcomes SuccessCount + ErrorCount is at most the number of outcomes.    *)
C34_SuccessOrError ==
    Returned("statistics") =>
        LET requests == calcOut[1].Requests
            running == calculateIncrementalStats(requests)
        IN  /\ calcOut[1].SuccessCount + calcOut[1].ErrorCount <= Len(requests)
            /\ running.SuccessCount + running.ErrorCount <= Len(requests)

(* C35: for every list of outcomes with response times >= 0, the empty list *)
(* and the lists of zeros included, the statistics calculateStatistics      *)
(* fills in have MinResponse <= MaxResponse, P99Response <= MaxResponse and *)
(* AvgResponse <= MaxResponse.                                              *)
C35_BoundedByMaximum ==
    Returned("statistics") =>
        /\ \A i \in 1..Len(calcIn.values) : calcIn.values[i] >= 0
        /\ calcOut[1].MinResponse <= calcOut[1].MaxResponse
        /\ calcOut[1].P99Response <= calcOut[1].MaxResponse
        /\ calcOut[1].AvgResponse <= calcOut[1].MaxResponse

(* the largest response time is not the last one: the minimum is below the  *)
(* average, the average below the 99th percentile, which is the maximum     *)
C35_Witness ==
    /\ Returned("statistics")
    /\ calcIn.values = <<1, 3, 3, 0>>
    /\ calcOut[1].MinResponse = 1
    /\ calcOut[1].AvgResponse = 1
    /\ calcOut[1].P99Response = 3
    /\ calcOut[1].MaxResponse = 3

(* the positions of the "progress" updates of a session, in order           *)
Progresses(s) == {i \in 1..Len(events[s]) : events[s][i].Type = "progress"}

(* C36: over the "progress" updates of a session Completed starts at 0,     *)
(* grows strictly from one to the next and never exceeds Total; Percentage  *)
(* is Completed * 100 / Total rounded down, lies in 0..100, and is 100 only *)
(* when Completed = Total.                                                  *)
C36_ProgressCounts ==
    \A s \in Sessions :
        /\ Len(events[s]) >= 1 =>
              (events[s][1].Type = "progress" /\ events[s][1].Completed = 0)
        /\ \A i \in Progresses(s) :
              LET update == events[s][i]
              IN  /\ update.Total >= 1
                  /\ update.Completed \in 0..update.Total
                  /\ update.Percentage = (update.Completed * 100) \div update.Total
                  /\ update.Percentage \in 0..100
                  /\ update.Percentage = 100 => update.Completed = update.Total
                  /\ \A j \in Progresses(s) :
                        j < i => events[s][j].Completed < update.Completed

(* three "progress" updates: none, one and both requests completed          *)
C36_Witness ==
    /\ Len(events[1]) >= 3
    /\ \A i \in 1..3 : /\ events[1][i].Type = "progress"
                       /\ events[1][i].Completed = i - 1
                       /\ events[1][i].Total = 2
    /\ events[1][2].Percentage = 50
    /\ events[1][3].Percentage = 100

(* sendRequest returns in session s *)
RequestReturns(s) == dpc[s] = "inflight" /\ dpc'[s] = "enqueue"

AllZero(result) ==
    /\ result.SuccessCount = 0 /\ result.ErrorCount = 0 /\ result.BlockedCount = 0
    /\ result.AvgResponse = 0 /\ result.MinResponse = 0 /\ result.MaxResponse = 0
    /\ result.P50Response = 0 /\ result.P95Response = 0 /\ result.P99Response = 0

(* C38: a session that started has TotalRequests >= 1, the divisor of the   *)
(* interval and of the percentage; the running statistics over no outcome   *)
(* are zero counts and a zero average; and the FinalResult of a session     *)
(* that ended before any outcome was processed has zero counts, average,    *)
(* minimum, maximum and percentiles.                                        *)
C38_NoDivisionByZero ==
    \A s \in Sessions :
        /\ bpc[s] # "none" =>
              /\ Total(s) >= 1
              /\ calculateInterval(sessConfig[s]) >= 0
              /\ \A i \in 1..Len(events[s]) : events[s][i].Total >= 1
        /\ allRequests[s] = <<>> =>
              calculateIncrementalStats(allRequests[s]) =
                  [SuccessCount |-> 0, ErrorCount |-> 0, BlockedCount |-> 0,
                   AvgResponse |-> 0]
        /\ \A c \in Completes(s) :
              LET final == events[s][c].FinalResult[1]
              IN  final.Requests = <<>> => (final.TotalRequests = 0 /\ AllZero(final))

(* a session stopped before its first outcome was processed, ended by the   *)
(* "complete" update with a FinalResult over no outcome                     *)
C38_Witness ==
    /\ ctxDone[1]
    /\ allRequests[1] = <<>>
    /\ \E c \in Completes(1) :
          /\ events[1][c].FinalResult[1].Requests = <<>>
          /\ AllZero(events[1][c].FinalResult[1])

(* the batching goroutine has sent its terminal update and consumes no more *)
BatcherStopped(s) == bpc[s] \in {"exit", "closed"}

(* sendRequestsConcurrently has returned and closed resultsChan             *)
DispatcherEnded(s) == dpc[s] = "done" /\ resultsClosed[s]

(* C39: under fair scheduling, once the batching goroutine has sent its     *)
(* "cancelled" or "complete" update and stopped consuming, the dispatcher   *)
(* of the session in the end returns and closes resultsChan: it does not    *)
(* stay blocked on its enqueue or in its wait, whatever the interleaving    *)
(* and whenever the cancellation comes.                                     *)
C39_DispatcherEnds ==
    \A s \in Sessions : BatcherStopped(s) ~> DispatcherEnded(s)

(* a session of two requests cancelled while the dispatcher waited between  *)
(* the first and the second: the dispatcher left its wait and closed        *)
C39_Witness ==
    /\ BatcherStopped(1)
    /\ DispatcherEnded(1)
    /\ Last(events[1]).Type = "cancelled"
    /\ Total(1) = 2
    /\ di[1] = 1
    /\ Len(Outcomes(1)) = 1
    /\ dresult[1] = <<>>

====
